---- MODULE Spec2Model ----
(***************************************************************************)
(* Drive -> Photos transfer pipeline of tools/drive2photos:                *)
(* SyncState (dedup ledger + counters + checkpointing), the                *)
(* PhotosFilenameCache (destination name index), process_one_file run by   *)
(* a ThreadPoolExecutor, the BatchCollector (buffer, background flush      *)
(* thread, drain) and the tail of main() that drives them.                 *)
(***************************************************************************)
EXTENDS Integers, Sequences, FiniteSets, TLC

(***************************************************************************)
(* Bounds of the model.                                                    *)
(***************************************************************************)
NumFiles == 3        \* pending files of the small scenarios
MaxCalls == 4        \* calls a client of SyncState makes before its final flush
NumWorkers == 2      \* worker threads of the small scenarios
MaxTimedWakes == 1   \* timed wake-ups explored in the large-batch scenario
MaxSignals == 2      \* SIGINTs delivered where the handler is taken step by step
MaxExpiries == 2     \* times the access token expires where refresh is studied
CrashSaveEvery == 2  \* --save-every of the runs that study the unsaved records
MaxListed == 3       \* files a SyncEngine run lists, and distinct paths they have

(***************************************************************************)
(* Program constants.                                                      *)
(***************************************************************************)
BATCH_SIZE == 50
MAX_RETRIES == 3
RETRY_BASE_DELAY == 2
DEFAULT_SAVE_EVERY == 25

\* What a path of the file system holds.
ABSENT == [st |-> "absent", data |-> {}]        \* no file at that path
TRUNCATED == [st |-> "truncated", data |-> {}]  \* JSON text cut short
Stored(s) == [st |-> "ok", data |-> s]          \* the complete JSON array of s

DedupModes == {"none", "filename", "hash", "filename+hash"}
NameModes == {"filename", "filename+hash"}
HashModes == {"hash", "filename+hash"}

\* Fault kinds the environment may inject.
\*   r429      HTTP 429 from the Photos API
\*   http_err  any other non-200 HTTP status (5xx, 4xx)
\*   exc       the HTTP request raises (transport error)
\*   mismatch  a 200 batchCreate reply whose result list is not as long as the batch
\*   item_fail a 200 batchCreate reply with failed per-item statuses
\*   dl_fail   the Drive download raises
\*   refresh   the OAuth token refresh raises
\*   io_err    writing a ledger file raises OSError
\*   sigint    the user presses Ctrl+C
\*   kill      the process is killed (power loss, SIGKILL)
FaultKinds == {"r429", "http_err", "exc", "mismatch", "item_fail",
               "dl_fail", "refresh", "io_err", "sigint", "kill"}

VARIABLES
    args,            \* [workers, save_every, dedup_mode, refresh_cache]: the
                     \* command line
    total,           \* len(pending)
    env,             \* what surrounds this run: the faults that may occur, the
                     \* replies of the destination, the files found on disk
    \* ---- SyncState
    uploaded_ids, uploaded_hashes,
    success_count, fail_count, skip_count,
    ops_since_save,
    shutdown,
    state_lock,      \* holder of SyncState._lock, or "free"
    persist,         \* progress of the _persist call running under the lock
    \* ---- file system
    disk,            \* path -> ABSENT | TRUNCATED | Stored(set)
    \* ---- PhotosFilenameCache
    filenames,
    \* ---- BatchCollector
    buffer, flush_event, stopped,
    ft_pc,           \* position of the daemon thread in _flush_loop
    fl,              \* thread -> frame of its _do_flush call
    timed_wakes,     \* timed wake-ups of the flush thread so far
    \* ---- ThreadPoolExecutor and main()
    fut,             \* file -> state of its future
    wk,              \* worker -> frame of its process_one_file call
    seen,            \* futures the as_completed loop has consumed
    main_pc,
    crashed,         \* the process was killed
    \* ---- observers (not program state)
    verdict,         \* file -> what the destination answered for it
    rec,             \* file -> outcomes recorded for it, in order
    cache_added,     \* files whose name was add()ed to the name index
    enq,             \* every item enqueued, in enqueue order
    popped,          \* number of items popped from the buffer so far
    calls,           \* the batches popped, in pop order: the size of each and
                     \* the length of the buffer it was cut from
    ckpt,            \* observer of the checkpoint in progress
    \* ---- a retrying HTTP function called on its own
    http,            \* [kind, replies, out]: the function called, the replies its
                     \* attempts meet, and what it returned
    \* ---- the three locks taken on their own
    lk,              \* [holder, todo]: the thread that holds each lock, and for
                     \* each thread the lock steps left in the method it is in
    \* ---- the SIGINT handler taken step by step
    sig,             \* [frames, sent, notices]: the calls of _handle_interrupt
                     \* under way in the main thread (innermost last), the
                     \* signals delivered and the notices printed
    \* ---- the OAuth credentials and _creds_refresh_lock
    tok,             \* [valid, lock, pc, calls, expiries, refreshed]: creds.valid,
                     \* the holder of _creds_refresh_lock (0: free), the position
                     \* of each worker in _refresh_token_if_needed, and counts
    \* ---- sync_drive.SyncEngine
    eng              \* [files, on_duplicate, dest, i, pc, existing, transferred,
                     \* verified, failed, skipped]: the listing, the paths present
                     \* at the destination, the file run() is at, and the
                     \* SyncResult

vars == <<args, total, env, uploaded_ids, uploaded_hashes, success_count,
          fail_count, skip_count, ops_since_save, shutdown, state_lock,
          persist, disk, filenames, buffer, flush_event, stopped, ft_pc, fl,
          timed_wakes, fut, wk, seen, main_pc, crashed, verdict, rec,
          cache_added, enq, popped, calls, ckpt, http, lk, sig, tok, eng>>

\* what no step of a run changes
cfgVars == <<args, total, env, http, lk, sig, tok, eng>>
countVars == <<success_count, fail_count, skip_count>>
ledgerVars == <<uploaded_ids, uploaded_hashes, ops_since_save>>
batchVars == <<buffer, flush_event, stopped, ft_pc, fl, timed_wakes>>
poolVars == <<fut, wk, seen>>
obsVars == <<verdict, rec, cache_added, enq, popped, calls, ckpt>>
\* the run apart from its configuration and the cancellation flag
RunVars == <<ledgerVars, countVars, state_lock, persist, disk, filenames,
             batchVars, poolVars, main_pc, crashed, obsVars>>

Files == 1..total
FlushThreads == {"ft", "main"}

(***************************************************************************)
(* The pending files.  Ids are distinct; file 2 carries the name of file 1 *)
(* and file 3 the content of file 1, so that name and hash duplicates      *)
(* occur inside one run.                                                   *)
(***************************************************************************)
FileName(f) == IF f = 2 THEN 1 ELSE f
FileHash(f) == IF f = 3 THEN 1 ELSE f

Min(a, b) == IF a < b THEN a ELSE b

\* item["file_hash"]: the SHA-256 when a hash mode computed it, else None
\* (an Optional, held as a set of at most one hash)
ItemHash(f) == IF args.dedup_mode \in HashModes THEN {FileHash(f)} ELSE {}

\* photos_cache is None unless a filename mode is selected (main)
HasPhotosCache == args.dedup_mode \in NameModes

Fault(k) == k \in env.faults

\* The process is running: not killed, main() has neither returned nor raised.
Ended == {"done", "raised", "restarted", "load_error", "nothing_new", "rerun_pool"}
Running == ~crashed /\ main_pc \notin Ended

(***************************************************************************)
(* Persistent JSON helpers.                                                *)
(***************************************************************************)
\* _load_json_set: the set stored at path, the empty set if the file is absent.
\* A truncated file is not valid JSON: json.load raises.
LoadFails(path) == disk[path].st = "truncated"
_load_json_set(path) == IF disk[path].st = "ok" THEN disk[path].data ELSE {}

\* A save without a temporary file: the data is written at the final path
WriteInPlace(path) == path

Tmp(path) == IF path = "ids" THEN "ids_tmp" ELSE "hashes_tmp"

\* The steps of _save_json_set(data, path) on a disk d:
\* open(tmp, "w") creates or truncates the temporary file,
SaveOpen(d, path) == [d EXCEPT ![Tmp(path)] = TRUNCATED]
\* json.dump(sorted(data), fh) and the close complete it,
SaveDump(d, data, path) == [d EXCEPT ![Tmp(path)] = Stored(data)]
\* os.replace(tmp, path) moves it over the final path.
SaveReplace(d, path) == [d EXCEPT ![path] = d[Tmp(path)], ![Tmp(path)] = ABSENT]

\* no call made yet; no retrying function under study
NoOut == [result |-> "pending", attempts |-> 0, waits |-> <<>>]
NoCall == [kind |-> "none", replies |-> <<>>, out |-> NoOut]

\* the locks are not under study
Locks == {"state", "cache", "buffer"}
\* a thread is <<"worker", w>>, <<"ft", 0>> or <<"main", 0>>
NoThread == <<"free", 0>>
NoLocks == [holder |-> [l \in Locks |-> NoThread], todo |-> <<>>]

\* no signal delivered; the handler is not under study
NoSignals == [frames |-> <<>>, sent |-> 0, notices |-> 0]

\* the credentials are not under study
NoToken == [valid |-> TRUE, lock |-> 0, pc |-> <<>>, calls |-> 0, expiries |-> 0,
            refreshed |-> 0]

\* no SyncEngine under study
NoEngine == [files |-> <<>>, on_duplicate |-> "skip", dest |-> {}, i |-> 0,
             pc |-> "none", existing |-> FALSE, transferred |-> <<>>,
             verified |-> <<>>, failed |-> <<>>, skipped |-> <<>>]

IdleFrame == [pc |-> "idle", batch |-> <<>>, results |-> <<>>, i |-> 0]
IdleWorker == [pc |-> "idle", f |-> 0]
NoCkpt == [active |-> FALSE, ids |-> ABSENT, hashes |-> ABSENT]

(***************************************************************************)
(* Initial states: SyncState(), PhotosFilenameCache after ensure_loaded,   *)
(* BatchCollector() and the submitted futures, for a command line a and an *)
(* environment e, with the ledger files e.world.ids, e.world.hashes on     *)
(* disk and the names e.world.names at the destination, whose snapshot     *)
(* e.world.cache is on disk.  With pc = "ensure_loaded" main() is taken up  *)
(* earlier: the name index is not loaded yet and no BatchCollector exists.  *)
(*                                                                         *)
(* The run is taken up when the files 1..k have gone through               *)
(* process_one_file without a fault, were enqueued and were consumed by    *)
(* the as_completed loop, all before the flush thread was first scheduled  *)
(* (k = 0: right after the futures were submitted).                        *)
(***************************************************************************)
LoadedIds(e) == IF e.world.ids.st = "ok" THEN e.world.ids.data ELSE {}
LoadedHashes(e) == IF e.world.hashes.st = "ok" THEN e.world.hashes.data ELSE {}

InitAt(a, n, e, k, pc) ==
    /\ args = a
    /\ total = n
    /\ env = e
    /\ disk = [ids |-> e.world.ids, ids_tmp |-> ABSENT,
               hashes |-> e.world.hashes, hashes_tmp |-> ABSENT,
               cache |-> e.world.cache]
    /\ uploaded_ids = LoadedIds(e)
    /\ uploaded_hashes = LoadedHashes(e)
    /\ success_count = 0
    /\ fail_count = 0
    /\ skip_count = 0
    /\ ops_since_save = 0
    /\ shutdown = FALSE
    /\ state_lock = "free"
    /\ persist = "idle"
    /\ filenames = (IF a.dedup_mode \in NameModes /\ pc # "ensure_loaded"
                    THEN e.world.names ELSE {})
    /\ buffer = [i \in 1..k |-> i]
    /\ flush_event = (k >= BATCH_SIZE)
    /\ stopped = FALSE
    /\ ft_pc = (IF pc = "ensure_loaded" THEN "unborn" ELSE "start")
    /\ fl = [t \in FlushThreads |-> IdleFrame]
    /\ timed_wakes = 0
    /\ fut = [f \in 1..n |-> IF f <= k THEN "finished" ELSE "pending"]
    /\ wk = [w \in 1..a.workers |-> IdleWorker]
    /\ seen = 1..k
    /\ main_pc = pc
    /\ crashed = FALSE
    /\ verdict = [f \in 1..n |-> "none"]
    /\ rec = [f \in 1..n |-> <<>>]
    /\ cache_added = {}
    /\ enq = [i \in 1..k |-> i]
    /\ popped = 0
    /\ calls = <<>>
    /\ ckpt = NoCkpt

\* main() has submitted the futures and waits in the as_completed loop
InitRun(a, n, e, k) == InitAt(a, n, e, k, "pool")

InitWith(a, n, e, k) ==
    /\ InitRun(a, n, e, k)
    /\ http = NoCall
    /\ lk = NoLocks
    /\ sig = NoSignals
    /\ tok = NoToken
    /\ eng = NoEngine

\* A first run (nothing on disk, nothing at the destination) and a later run:
\* an older file 0 is in the ledger, the content of file 2 was uploaded before
\* and the name of file 3 exists at the destination.
EmptyWorld == [ids |-> ABSENT, hashes |-> ABSENT, names |-> {}, cache |-> ABSENT]
UsedWorld == [ids |-> Stored({0}), hashes |-> Stored({2}), names |-> {3},
              cache |-> Stored({3})]
\* a run on a destination that was never scanned: a name exists there and no
\* snapshot of the name index is on disk
UnscannedWorld == [ids |-> ABSENT, hashes |-> ABSENT, names |-> {3}, cache |-> ABSENT]

(***************************************************************************)
(* How a thread running _do_flush (the flush thread "ft", or main() inside *)
(* drain) leaves it.                                                       *)
(***************************************************************************)
\* _do_flush returns to its caller: _flush_loop's while loop, which tests
\* self._stopped and either waits again or leaves for the final flush;
\* _flush_loop's final flush (the thread then ends); or drain() (main then
\* calls state.flush).
Return(t) ==
    /\ fl' = [fl EXCEPT ![t] = IF t = "ft" /\ ft_pc = "flush" /\ stopped
                               THEN [IdleFrame EXCEPT !.pc = "pop"] ELSE IdleFrame]
    /\ ft_pc' = IF t # "ft" THEN ft_pc
                 ELSE IF ft_pc = "final" THEN "exited"
                 ELSE IF stopped THEN "final" ELSE "wait"
    /\ main_pc' = IF t = "main" THEN "flush" ELSE main_pc

\* An exception leaves _do_flush: nothing catches it in _flush_loop, so the
\* daemon thread dies; in drain() it propagates out of main().
Raise(t) ==
    /\ fl' = [fl EXCEPT ![t] = IdleFrame]
    /\ ft_pc' = IF t = "ft" THEN "dead" ELSE ft_pc
    /\ main_pc' = IF t = "main" THEN "raised" ELSE main_pc

(***************************************************************************)
(* SyncState                                                               *)
(***************************************************************************)
is_uploaded_id(file_id) == file_id \in uploaded_ids
is_uploaded_hash(file_hash) == file_hash \in uploaded_hashes

\* _persist is entered with the lock held by t
BeginPersist(t) ==
    /\ state_lock' = t
    /\ persist' = "ids_write"
    /\ ckpt' = [active |-> TRUE, ids |-> disk.ids, hashes |-> disk.hashes]

\* A test that saves at twice the interval
SaveAtTwice(ops) == ops >= 2 * args.save_every

\* A test that lets the counter pass the interval before it saves
SaveLate(ops) == ops > args.save_every

\* the auto-checkpoint test of record_success
SaveDue(ops) == ops >= args.save_every

\* A record_success that assigns the sets instead of adding to them
record_success_assigning(t, file_id, file_hash) ==
    /\ state_lock = "free"
    /\ uploaded_ids' = {file_id}
    /\ uploaded_hashes' = file_hash
    /\ success_count' = success_count + 1
    /\ ops_since_save' = ops_since_save + 1
    /\ rec' = [rec EXCEPT ![file_id] = Append(@, "succeeded")]
    /\ IF SaveDue(ops_since_save + 1)
       THEN BeginPersist(t)
       ELSE UNCHANGED <<state_lock, persist, ckpt>>
    /\ UNCHANGED <<fail_count, skip_count>>

\* A record_success that does not take the lock
record_success_unlocked(t, file_id, file_hash) ==
    /\ uploaded_ids' = uploaded_ids \cup {file_id}
    /\ uploaded_hashes' = uploaded_hashes \cup file_hash
    /\ success_count' = success_count + 1
    /\ ops_since_save' = ops_since_save + 1
    /\ rec' = [rec EXCEPT ![file_id] = Append(@, "succeeded")]
    /\ IF SaveDue(ops_since_save + 1)
       THEN BeginPersist(t)
       ELSE UNCHANGED <<state_lock, persist, ckpt>>
    /\ UNCHANGED <<fail_count, skip_count>>

\* record_success(file_id, file_hash) up to the call of _persist
record_success(t, file_id, file_hash) ==
    /\ state_lock = "free"
    /\ uploaded_ids' = uploaded_ids \cup {file_id}
    /\ uploaded_hashes' = uploaded_hashes \cup file_hash
    /\ success_count' = success_count + 1
    /\ ops_since_save' = ops_since_save + 1
    /\ rec' = [rec EXCEPT ![file_id] = Append(@, "succeeded")]
    /\ IF SaveDue(ops_since_save + 1)
       THEN BeginPersist(t)
       ELSE UNCHANGED <<state_lock, persist, ckpt>>
    /\ UNCHANGED <<fail_count, skip_count>>

\* record_failure(); f is the file the caller records it for
record_failure(f) ==
    /\ state_lock = "free"
    /\ fail_count' = fail_count + 1
    /\ rec' = [rec EXCEPT ![f] = Append(@, "failed")]
    /\ UNCHANGED <<success_count, skip_count>>

record_skip(f) ==
    /\ state_lock = "free"
    /\ skip_count' = skip_count + 1
    /\ rec' = [rec EXCEPT ![f] = Append(@, "skipped")]
    /\ UNCHANGED <<success_count, fail_count>>

\* SyncState used on its own by a client that calls its recording methods in
\* any order, with any id of the file list - one already recorded included -
\* and any hash or none, and then flush().
ApiCalls == success_count + fail_count + skip_count

ApiRecordSuccess ==
    /\ main_pc = "api"
    /\ ApiCalls < MaxCalls
    /\ \E f \in Files : \E h \in {{}} \cup {{FileHash(g)} : g \in Files} :
          record_success("main", f, h)
    /\ UNCHANGED <<cfgVars, shutdown, disk, filenames, batchVars, poolVars,
                   main_pc, crashed, verdict, cache_added, enq, popped, calls>>

ApiRecordFailure ==
    /\ main_pc = "api"
    /\ ApiCalls < MaxCalls
    /\ \E f \in Files : record_failure(f)
    /\ UNCHANGED <<cfgVars, ledgerVars, shutdown, state_lock, persist, disk,
                   filenames, batchVars, poolVars, main_pc, crashed, verdict,
                   cache_added, enq, popped, calls, ckpt>>

ApiRecordSkip ==
    /\ main_pc = "api"
    /\ ApiCalls < MaxCalls
    /\ \E f \in Files : record_skip(f)
    /\ UNCHANGED <<cfgVars, ledgerVars, shutdown, state_lock, persist, disk,
                   filenames, batchVars, poolVars, main_pc, crashed, verdict,
                   cache_added, enq, popped, calls, ckpt>>

\* the client goes on to flush()
ApiDone ==
    /\ main_pc = "api"
    /\ state_lock = "free"
    /\ main_pc' = "flush"
    /\ UNCHANGED <<cfgVars, ledgerVars, countVars, shutdown, state_lock, persist,
                   disk, filenames, batchVars, poolVars, crashed, obsVars>>

\* _persist: _save_json_set of the ids, then of the hashes, then the reset.
\* Each _save_json_set is two steps: the write of the temporary file (open,
\* json.dump, close) and os.replace.
PathOf(step) == IF step \in {"ids_write", "ids_replace"} THEN "ids" ELSE "hashes"
DataOf(path) == IF path = "ids" THEN uploaded_ids ELSE uploaded_hashes
StepAfter(step) ==
    CASE step = "ids_write" -> "ids_replace"
      [] step = "ids_replace" -> "hashes_write"
      [] step = "hashes_write" -> "hashes_replace"
      [] OTHER -> "idle"
IsWrite(step) == step \in {"ids_write", "hashes_write"}
DiskAfter(d, step) ==
    IF IsWrite(step) THEN SaveDump(d, DataOf(PathOf(step)), PathOf(step))
    ELSE SaveReplace(d, PathOf(step))

\* open(tmp, "w") of a write may raise OSError; bad is the step where it does.
IOFailures ==
    {"none"} \cup (IF Fault("io_err") THEN {"ids_write", "hashes_write"} ELSE {})

\* Up to n steps of _persist from step on disk d: the disk left, the step
\* reached ("idle" when _persist is over) and whether OSError was raised.
RECURSIVE PersistRun(_, _, _, _)
PersistRun(d, step, n, bad) ==
    IF step = "idle" \/ n = 0
    THEN [disk |-> d, step |-> step, raised |-> FALSE]
    ELSE IF step = bad
    THEN [disk |-> d, step |-> "idle", raised |-> TRUE]
    ELSE PersistRun(DiskAfter(d, step), StepAfter(step), n - 1, bad)

\* No thread reads the ledger files during a run and _persist holds the lock, so
\* its steps are taken one by one only where the process can be killed between
\* them.
PersistStride == IF Fault("kill") THEN 1 ELSE 4

\* where record_success returns to in _do_flush: photos_cache.add, or the next result
AfterRecord(frame) ==
    IF HasPhotosCache THEN [frame EXCEPT !.pc = "cache_add"]
    ELSE [frame EXCEPT !.pc = "apply", !.i = frame.i + 1]

\* _persist, run by the thread t that holds the lock
PersistStep(t) ==
    /\ Running
    /\ state_lock = t
    /\ persist # "idle"
    /\ \E bad \in IOFailures :
        LET out == PersistRun(disk, persist, PersistStride, bad) IN
        /\ disk' = out.disk
        /\ IF out.raised
           THEN \* the with-block releases the lock; the exception reaches the caller
                /\ state_lock' = "free"
                /\ persist' = "idle"
                /\ ckpt' = NoCkpt
                /\ Raise(t)
                /\ UNCHANGED ops_since_save
           ELSE IF out.step = "idle"
           THEN \* self._ops_since_save = 0, the lock is released
                /\ ops_since_save' = 0
                /\ state_lock' = "free"
                /\ persist' = "idle"
                /\ ckpt' = NoCkpt
                /\ IF fl[t].pc = "persist"
                   THEN /\ fl' = [fl EXCEPT ![t] = AfterRecord(fl[t])]
                        /\ UNCHANGED <<ft_pc, main_pc>>
                   ELSE /\ main_pc' = "done"
                        /\ UNCHANGED <<fl, ft_pc>>
           ELSE /\ persist' = out.step
                /\ UNCHANGED <<state_lock, ops_since_save, ckpt, fl, ft_pc, main_pc>>
    /\ UNCHANGED <<cfgVars, uploaded_ids, uploaded_hashes, countVars, shutdown,
                   filenames, buffer, flush_event, stopped, timed_wakes,
                   poolVars, crashed, verdict, rec, cache_added, enq, popped, calls>>

(***************************************************************************)
(* What the Photos API may answer.                                         *)
(***************************************************************************)
HttpStatuses ==
    {200} \cup (IF Fault("r429") THEN {429} ELSE {})
          \cup (IF Fault("http_err") THEN {503, 403} ELSE {})

\* newMediaItemResults of a 200 reply to a batch of n items: TRUE where the
\* item's status is OK.  Outside the small scenarios the failing positions are
\* fixed by env.fail_at.
ResultLens(n) == IF Fault("mismatch") THEN 0..n ELSE {n}
ResultLists(n) ==
    IF env.results = "fixed"
    THEN {[i \in 1..n |-> i \notin env.fail_at]}
    ELSE {r \in UNION {[1..k -> BOOLEAN] : k \in ResultLens(n)} :
             Fault("item_fail") \/ \A i \in DOMAIN r : r[i]}

BatchReplies(n) ==
    {[raised |-> FALSE, status |-> 200, results |-> r] : r \in ResultLists(n)}
    \cup {[raised |-> FALSE, status |-> c, results |-> <<>>] : c \in HttpStatuses \ {200}}
    \cup (IF Fault("exc") THEN {[raised |-> TRUE, status |-> 0, results |-> <<>>]} ELSE {})

UploadReplies ==
    {[raised |-> FALSE, status |-> c, results |-> <<>>] : c \in HttpStatuses}
    \cup (IF Fault("exc") THEN {[raised |-> TRUE, status |-> 0, results |-> <<>>]} ELSE {})

\* The answers one call with retries can meet: k rate-limit replies, then (if
\* the attempts are not used up) one reply of another kind.
Is429(r) == ~r.raised /\ r.status = 429
Limited(k) == [j \in 1..k |-> [raised |-> FALSE, status |-> 429, results |-> <<>>]]
ReplyRuns(S) ==
    {Append(Limited(k), r) :
        k \in (IF Fault("r429") THEN 0..(MAX_RETRIES - 1) ELSE {0}),
        r \in {x \in S : ~Is429(x)}}
    \cup (IF Fault("r429") THEN {Limited(MAX_RETRIES)} ELSE {})

\* wait = RETRY_BASE_DELAY * (2 ** attempt)
Pow2(n) == IF n = 0 THEN 1 ELSE IF n = 1 THEN 2 ELSE IF n = 2 THEN 4 ELSE 8
Wait(attempt) == RETRY_BASE_DELAY * Pow2(attempt)

\* photos_upload_bytes, lines 667-695, against the replies of its attempts:
\* the upload token ("token"), None ("none") or an exception ("raised"), with
\* the number of requests made and the sleeps taken.
RECURSIVE UploadLoop(_, _, _)
UploadLoop(replies, attempt, waits) ==
    IF attempt >= MAX_RETRIES
    THEN [result |-> "none", attempts |-> attempt, waits |-> waits]
    ELSE LET resp == replies[attempt + 1] IN
         IF resp.raised
         THEN [result |-> "raised", attempts |-> attempt + 1, waits |-> waits]
         ELSE IF resp.status = 200
         THEN [result |-> "token", attempts |-> attempt + 1, waits |-> waits]
         ELSE IF resp.status = 429
         THEN UploadLoop(replies, attempt + 1, Append(waits, Wait(attempt)))
         ELSE [result |-> "none", attempts |-> attempt + 1, waits |-> waits]
photos_upload_bytes(replies) == UploadLoop(replies, 0, <<>>)

\* The request loop of _do_flush, lines 886-914 and 939, against the replies of
\* its attempts: a 200 reply with its results ("results"), every item to be
\* failed ("failed") or an exception ("raised").
RECURSIVE BatchLoop(_, _, _)
BatchLoop(replies, attempt, waits) ==
    IF attempt >= MAX_RETRIES
    THEN [result |-> "failed", results |-> <<>>, attempts |-> attempt, waits |-> waits]
    ELSE LET resp == replies[attempt + 1] IN
         IF resp.raised
         THEN [result |-> "raised", results |-> <<>>, attempts |-> attempt + 1,
               waits |-> waits]
         ELSE IF resp.status = 429
         THEN BatchLoop(replies, attempt + 1, Append(waits, Wait(attempt)))
         ELSE IF resp.status # 200
         THEN [result |-> "failed", results |-> <<>>, attempts |-> attempt + 1,
               waits |-> waits]
         ELSE [result |-> "results", results |-> resp.results,
               attempts |-> attempt + 1, waits |-> waits]
batch_create(replies) == BatchLoop(replies, 0, <<>>)

\* download_file, lines 643-651, against the replies the Drive API would give
\* to successive requests: next_chunk is called with no num_retries, so the one
\* request is made once; any reply other than 200 raises HttpError and a
\* transport error raises as it is.  process_one_file (lines 992-998) catches
\* the exception and fails the item.
download_file(replies) ==
    LET resp == replies[1] IN
    [result |-> IF ~resp.raised /\ resp.status = 200 THEN "data" ELSE "raised",
     attempts |-> 1, waits |-> <<>>]

\* The functions called on their own, each against the replies drawn for its
\* attempts.
Outcome(o) == [result |-> o.result, attempts |-> o.attempts, waits |-> o.waits]

CallUpload ==
    /\ http.kind = "upload"
    /\ http.out = NoOut
    /\ http' = [http EXCEPT !.out = Outcome(photos_upload_bytes(http.replies))]
    /\ UNCHANGED <<args, total, env, eng, lk, sig, tok, ledgerVars, countVars, shutdown,
                   state_lock, persist, disk, filenames, batchVars, poolVars,
                   main_pc, crashed, obsVars>>

CallDownload ==
    /\ http.kind = "download"
    /\ http.out = NoOut
    /\ http' = [http EXCEPT !.out = Outcome(download_file(http.replies))]
    /\ UNCHANGED <<args, total, env, eng, lk, sig, tok, ledgerVars, countVars, shutdown,
                   state_lock, persist, disk, filenames, batchVars, poolVars,
                   main_pc, crashed, obsVars>>

CallBatch ==
    /\ http.kind = "batch"
    /\ http.out = NoOut
    /\ http' = [http EXCEPT !.out = Outcome(batch_create(http.replies))]
    /\ UNCHANGED <<args, total, env, eng, lk, sig, tok, ledgerVars, countVars, shutdown,
                   state_lock, persist, disk, filenames, batchVars, poolVars,
                   main_pc, crashed, obsVars>>

(***************************************************************************)
(* BatchCollector                                                          *)
(***************************************************************************)
\* A pop without the limit: the whole buffer goes into one batch
TakeWholeBuffer(buf) == buf
\* A pop that empties the buffer whatever it took
DropWholeBuffer(buf) == <<>>

\* batch = self._buffer[:_BATCH_SIZE]
TakeBatch(buf) == SubSeq(buf, 1, Min(Len(buf), BATCH_SIZE))
\* A pop that leaves in the buffer what it took
KeepBatch(buf) == buf

\* self._buffer = self._buffer[_BATCH_SIZE:]
DropBatch(buf) == SubSeq(buf, Min(Len(buf), BATCH_SIZE) + 1, Len(buf))

\* the test of enqueue that signals the flush thread
BufferFull(buf) == Len(buf) >= BATCH_SIZE

\* A results loop that walks the batch from its other end
ItemFromEnd(batch, i) == batch[Len(batch) + 1 - i]
\* A results loop that takes every result for a success
OkAlways(results, i) == TRUE

\* batch[i] of the loop over enumerate(results)
ItemAt(batch, i) == batch[i]
\* ok of the loop over enumerate(results)
OkAt(results, i) == results[i]

InBatch(batch, f) == \E i \in 1..Len(batch) : batch[i] = f
PosIn(batch, f) == CHOOSE i \in 1..Len(batch) : batch[i] = f

\* observer: what the destination answered for each item of the batch
Answered(batch, results) ==
    [f \in Files |->
        IF ~InBatch(batch, f) THEN verdict[f]
        ELSE IF PosIn(batch, f) > Len(results) THEN "no_result"
        ELSE IF results[PosIn(batch, f)] THEN "ok" ELSE "fail"]
CallFailed(batch, why) ==
    [f \in Files |-> IF InBatch(batch, f) THEN why ELSE verdict[f]]

\* _do_flush, lines 865-869: pop up to _BATCH_SIZE items under the buffer lock
FlushPop(t) ==
    /\ Running
    /\ fl[t].pc = "pop"
    /\ IF buffer = <<>>
       THEN /\ Return(t)
            /\ UNCHANGED <<buffer, popped, calls>>
       ELSE /\ buffer' = DropBatch(buffer)
            /\ fl' = [fl EXCEPT ![t] = [IdleFrame EXCEPT !.pc = "post",
                                                        !.batch = TakeBatch(buffer)]]
            /\ popped' = popped + Len(TakeBatch(buffer))
            /\ calls' = Append(calls, [size |-> Len(TakeBatch(buffer)),
                                        of |-> Len(buffer)])
            /\ UNCHANGED <<ft_pc, main_pc>>
    /\ UNCHANGED <<cfgVars, ledgerVars, countVars, shutdown, state_lock, persist,
                   disk, filenames, flush_event, stopped, timed_wakes, poolVars,
                   crashed, verdict, rec, cache_added, enq, ckpt>>

\* _do_flush, lines 886-914 and 939: the batchCreate request with its retries
FlushPost(t) ==
    /\ Running
    /\ fl[t].pc = "post"
    /\ \E replies \in ReplyRuns(BatchReplies(Len(fl[t].batch))) :
        LET out == batch_create(replies) IN
        IF out.result = "raised"
        THEN /\ Raise(t)
             /\ verdict' = CallFailed(fl[t].batch, "raised")
        ELSE IF out.result = "failed"
        THEN /\ fl' = [fl EXCEPT ![t].pc = "fail_all", ![t].i = 1]
             /\ verdict' = CallFailed(fl[t].batch, "call_failed")
             /\ UNCHANGED <<ft_pc, main_pc>>
        ELSE /\ fl' = [fl EXCEPT ![t].pc = "apply", ![t].i = 1,
                                   ![t].results = out.results]
             /\ verdict' = Answered(fl[t].batch, out.results)
             /\ UNCHANGED <<ft_pc, main_pc>>
    /\ UNCHANGED <<cfgVars, ledgerVars, countVars, shutdown, state_lock, persist,
                   disk, filenames, buffer, flush_event, stopped, timed_wakes,
                   poolVars, crashed, rec, cache_added, enq, popped, calls, ckpt>>

\* A failure loop that stops after the first item of the batch
FlushFailFirst(t) ==
    /\ Running
    /\ fl[t].pc = "fail_all"
    /\ IF fl[t].i > 1
       THEN /\ Return(t)
            /\ UNCHANGED <<countVars, rec>>
       ELSE /\ record_failure(fl[t].batch[fl[t].i])
            /\ fl' = [fl EXCEPT ![t].i = @ + 1]
            /\ UNCHANGED <<ft_pc, main_pc>>
    /\ UNCHANGED <<cfgVars, ledgerVars, shutdown, state_lock, persist, disk,
                   filenames, buffer, flush_event, stopped, timed_wakes, poolVars,
                   crashed, verdict, cache_added, enq, popped, calls, ckpt>>

\* _do_flush, lines 910-912 and 940-941: for _ in batch: record_failure()
FlushFailAll(t) ==
    /\ Running
    /\ fl[t].pc = "fail_all"
    /\ IF fl[t].i > Len(fl[t].batch)
       THEN /\ Return(t)
            /\ UNCHANGED <<countVars, rec>>
       ELSE /\ record_failure(fl[t].batch[fl[t].i])
            /\ fl' = [fl EXCEPT ![t].i = @ + 1]
            /\ UNCHANGED <<ft_pc, main_pc>>
    /\ UNCHANGED <<cfgVars, ledgerVars, shutdown, state_lock, persist, disk,
                   filenames, buffer, flush_event, stopped, timed_wakes, poolVars,
                   crashed, verdict, cache_added, enq, popped, calls, ckpt>>

\* _do_flush, lines 915-937: the loop over enumerate(results)
FlushApply(t) ==
    /\ Running
    /\ fl[t].pc = "apply"
    /\ IF fl[t].i > Len(fl[t].results) \/ fl[t].i > Len(fl[t].batch)
       THEN /\ Return(t)
            /\ UNCHANGED <<ledgerVars, countVars, state_lock, persist, rec, ckpt>>
       ELSE IF OkAt(fl[t].results, fl[t].i)
       THEN /\ record_success(t, ItemAt(fl[t].batch, fl[t].i),
                              ItemHash(ItemAt(fl[t].batch, fl[t].i)))
            /\ fl' = [fl EXCEPT ![t] = IF SaveDue(ops_since_save + 1)
                                       THEN [fl[t] EXCEPT !.pc = "persist"]
                                       ELSE AfterRecord(fl[t])]
            /\ UNCHANGED <<ft_pc, main_pc>>
       ELSE /\ record_failure(ItemAt(fl[t].batch, fl[t].i))
            /\ fl' = [fl EXCEPT ![t].i = @ + 1]
            /\ UNCHANGED <<ledgerVars, state_lock, persist, ckpt, ft_pc, main_pc>>
    /\ UNCHANGED <<cfgVars, shutdown, disk, filenames, buffer, flush_event,
                   stopped, timed_wakes, poolVars, crashed, verdict, cache_added,
                   enq, popped, calls>>

\* An add that assigns the index instead of inserting into it
FlushCacheAssign(t) ==
    /\ Running
    /\ fl[t].pc = "cache_add"
    /\ filenames' = {FileName(ItemAt(fl[t].batch, fl[t].i))}
    /\ cache_added' = cache_added \cup {ItemAt(fl[t].batch, fl[t].i)}
    /\ fl' = [fl EXCEPT ![t].pc = "apply", ![t].i = @ + 1]
    /\ UNCHANGED <<cfgVars, ledgerVars, countVars, shutdown, state_lock, persist,
                   disk, buffer, flush_event, stopped, ft_pc, timed_wakes, poolVars,
                   main_pc, crashed, verdict, rec, enq, popped, calls, ckpt>>

\* _do_flush, lines 925-926: self._photos_cache.add(item["filename"])
FlushCacheAdd(t) ==
    /\ Running
    /\ fl[t].pc = "cache_add"
    /\ filenames' = filenames \cup {FileName(ItemAt(fl[t].batch, fl[t].i))}
    /\ cache_added' = cache_added \cup {ItemAt(fl[t].batch, fl[t].i)}
    /\ fl' = [fl EXCEPT ![t].pc = "apply", ![t].i = @ + 1]
    /\ UNCHANGED <<cfgVars, ledgerVars, countVars, shutdown, state_lock, persist,
                   disk, buffer, flush_event, stopped, ft_pc, timed_wakes, poolVars,
                   main_pc, crashed, verdict, rec, enq, popped, calls, ckpt>>

\* _flush_loop is started by BatchCollector.__init__: the first test of
\* "while not self._stopped"
FtCheck ==
    /\ Running
    /\ ft_pc = "start"
    /\ IF stopped
       THEN /\ ft_pc' = "final"
            /\ fl' = [fl EXCEPT !["ft"].pc = "pop"]
       ELSE /\ ft_pc' = "wait"
            /\ UNCHANGED fl
    /\ UNCHANGED <<cfgVars, ledgerVars, countVars, shutdown, state_lock, persist,
                   disk, filenames, buffer, flush_event, stopped, timed_wakes,
                   poolVars, main_pc, crashed, obsVars>>

\* _flush_loop: self._flush_event.wait(timeout=_FLUSH_INTERVAL) returns, on the
\* event or on the timeout; self._flush_event.clear(); _do_flush is entered
FtWake ==
    /\ Running
    /\ ft_pc = "wait"
    /\ flush_event \/ ~env.wake_cap \/ timed_wakes < MaxTimedWakes
    /\ timed_wakes' = IF ~flush_event /\ env.wake_cap THEN timed_wakes + 1
                       ELSE timed_wakes
    /\ flush_event' = FALSE
    /\ ft_pc' = "flush"
    /\ fl' = [fl EXCEPT !["ft"].pc = "pop"]
    /\ UNCHANGED <<cfgVars, ledgerVars, countVars, shutdown, state_lock, persist,
                   disk, filenames, buffer, stopped, poolVars, main_pc, crashed,
                   obsVars>>

\* drain: self._stopped = True
DrainStop ==
    /\ Running
    /\ main_pc = "drain_stop"
    /\ stopped' = TRUE
    /\ main_pc' = "drain_set"
    /\ UNCHANGED <<cfgVars, ledgerVars, countVars, shutdown, state_lock, persist,
                   disk, filenames, buffer, flush_event, ft_pc, fl, timed_wakes,
                   poolVars, crashed, obsVars>>

\* drain: self._flush_event.set()
DrainSet ==
    /\ Running
    /\ main_pc = "drain_set"
    /\ flush_event' = TRUE
    /\ main_pc' = "drain_join"
    /\ UNCHANGED <<cfgVars, ledgerVars, countVars, shutdown, state_lock, persist,
                   disk, filenames, buffer, stopped, ft_pc, fl, timed_wakes,
                   poolVars, crashed, obsVars>>

\* self._thread.join(timeout=60) returns: the thread has ended, or 60 s passed
\* while it is blocked in a request or a retry sleep
JoinReturns ==
    \/ ft_pc \in {"exited", "dead"}
    \/ fl["ft"].pc = "post"

\* drain: the join, then the call of _do_flush
DrainJoin ==
    /\ Running
    /\ main_pc = "drain_join"
    /\ JoinReturns
    /\ main_pc' = "drain_flush"
    /\ fl' = [fl EXCEPT !["main"].pc = "pop"]
    /\ UNCHANGED <<cfgVars, ledgerVars, countVars, shutdown, state_lock, persist,
                   disk, filenames, buffer, flush_event, stopped, ft_pc,
                   timed_wakes, poolVars, crashed, obsVars>>

(***************************************************************************)
(* process_one_file, run by the worker threads of the ThreadPoolExecutor   *)
(* (main passes a batch_collector, so lines 1041-1051 are never reached).  *)
(***************************************************************************)
Workers == 1..args.workers
Pending == {f \in Files : fut[f] = "pending"}
NextPending == CHOOSE f \in Pending : \A g \in Pending : f <= g

\* process_one_file returns (how = "finished") or raises (how = "raised")
Finish(w, how) ==
    /\ fut' = [fut EXCEPT ![wk[w].f] = how]
    /\ wk' = [wk EXCEPT ![w] = IdleWorker]

\* A pool whose threads take the next work item only when every item enqueued
\* so far has its outcome
WClaimAfterResolve(w) ==
    /\ Running
    /\ main_pc \in {"pool", "pool_exit"}
    /\ wk[w].pc = "idle"
    /\ \A v \in Workers : wk[v].pc = "idle" => w <= v
    /\ Pending # {}
    /\ \A i \in 1..Len(enq) : rec[enq[i]] # <<>>
    /\ fut' = [fut EXCEPT ![NextPending] = "running"]
    /\ wk' = [wk EXCEPT ![w] = [IdleWorker EXCEPT !.pc = "begin", !.f = NextPending]]
    /\ UNCHANGED <<cfgVars, ledgerVars, countVars, shutdown, state_lock, persist,
                   disk, filenames, batchVars, seen, main_pc, crashed, obsVars>>

\* a free worker thread takes the next queued work item (the threads are
\* alike: the free one of least index stands for any of them)
WClaim(w) ==
    /\ Running
    /\ main_pc \in {"pool", "pool_exit"}
    /\ wk[w].pc = "idle"
    /\ \A v \in Workers : wk[v].pc = "idle" => w <= v
    /\ Pending # {}
    /\ fut' = [fut EXCEPT ![NextPending] = "running"]
    /\ wk' = [wk EXCEPT ![w] = [IdleWorker EXCEPT !.pc = "begin", !.f = NextPending]]
    /\ UNCHANGED <<cfgVars, ledgerVars, countVars, shutdown, state_lock, persist,
                   disk, filenames, batchVars, seen, main_pc, crashed, obsVars>>

\* A process_one_file that starts on its item without looking at the flag
WBeginUnchecked(w) ==
    /\ Running
    /\ wk[w].pc = "begin"
    /\ wk' = [wk EXCEPT ![w].pc = IF HasPhotosCache THEN "name" ELSE "download"]
    /\ UNCHANGED <<cfgVars, ledgerVars, countVars, shutdown, state_lock, persist,
                   disk, filenames, batchVars, fut, seen, main_pc, crashed, obsVars>>

\* lines 971-973: if state.shutdown.is_set(): return "skipped"
WBegin(w) ==
    /\ Running
    /\ wk[w].pc = "begin"
    /\ IF shutdown
       THEN Finish(w, "finished")
       ELSE /\ wk' = [wk EXCEPT ![w].pc = IF HasPhotosCache THEN "name" ELSE "download"]
            /\ UNCHANGED fut
    /\ UNCHANGED <<cfgVars, ledgerVars, countVars, shutdown, state_lock, persist,
                   disk, filenames, batchVars, seen, main_pc, crashed, obsVars>>

\* A name check that lets every item through to the download
WNameNeverSkips(w) ==
    /\ Running
    /\ wk[w].pc = "name"
    /\ wk' = [wk EXCEPT ![w].pc = "download"]
    /\ UNCHANGED <<cfgVars, ledgerVars, countVars, shutdown, state_lock, persist,
                   disk, filenames, batchVars, fut, seen, main_pc, crashed, obsVars>>

\* lines 983-987: photos_cache.contains(filename); on a match record_skip
WName(w) ==
    /\ Running
    /\ wk[w].pc = "name"
    /\ IF FileName(wk[w].f) \in filenames
       THEN /\ record_skip(wk[w].f)
            /\ Finish(w, "finished")
       ELSE /\ wk' = [wk EXCEPT ![w].pc = "download"]
            /\ UNCHANGED <<fut, countVars, rec>>
    /\ UNCHANGED <<cfgVars, ledgerVars, shutdown, state_lock, persist, disk,
                   filenames, batchVars, seen, main_pc, crashed, verdict,
                   cache_added, enq, popped, calls, ckpt>>

\* lines 992-998: download_file; any exception is caught and fails the item
WDownload(w) ==
    /\ Running
    /\ wk[w].pc = "download"
    /\ \E ok \in (IF Fault("dl_fail") THEN BOOLEAN ELSE {TRUE}) :
        IF ok
        THEN /\ wk' = [wk EXCEPT ![w].pc = IF args.dedup_mode \in HashModes
                                            THEN "hash" ELSE "refresh"]
             /\ UNCHANGED <<fut, countVars, rec>>
        ELSE /\ record_failure(wk[w].f)
             /\ Finish(w, "finished")
    /\ UNCHANGED <<cfgVars, ledgerVars, shutdown, state_lock, persist, disk,
                   filenames, batchVars, seen, main_pc, crashed, verdict,
                   cache_added, enq, popped, calls, ckpt>>

\* A hash check that lets every item through to the upload
WHashNeverSkips(w) ==
    /\ Running
    /\ wk[w].pc = "hash"
    /\ state_lock = "free"
    /\ wk' = [wk EXCEPT ![w].pc = "refresh"]
    /\ UNCHANGED <<cfgVars, ledgerVars, countVars, shutdown, state_lock, persist,
                   disk, filenames, batchVars, fut, seen, main_pc, crashed, obsVars>>

\* lines 1004-1009: state.is_uploaded_hash(file_hash); on a match record_skip
WHash(w) ==
    /\ Running
    /\ wk[w].pc = "hash"
    /\ state_lock = "free"
    /\ IF is_uploaded_hash(FileHash(wk[w].f))
       THEN /\ record_skip(wk[w].f)
            /\ Finish(w, "finished")
       ELSE /\ wk' = [wk EXCEPT ![w].pc = "refresh"]
            /\ UNCHANGED <<fut, countVars, rec>>
    /\ UNCHANGED <<cfgVars, ledgerVars, shutdown, state_lock, persist, disk,
                   filenames, batchVars, seen, main_pc, crashed, verdict,
                   cache_added, enq, popped, calls, ckpt>>

\* line 1014: _refresh_token_if_needed(creds); creds.refresh may raise
WRefresh(w) ==
    /\ Running
    /\ wk[w].pc = "refresh"
    /\ \E ok \in (IF Fault("refresh") THEN BOOLEAN ELSE {TRUE}) :
        IF ok
        THEN /\ wk' = [wk EXCEPT ![w].pc = "upload"]
             /\ UNCHANGED fut
        ELSE Finish(w, "raised")
    /\ UNCHANGED <<cfgVars, ledgerVars, countVars, shutdown, state_lock, persist,
                   disk, filenames, batchVars, seen, main_pc, crashed, obsVars>>

\* lines 1027-1031: photos_upload_bytes with its retries; None fails the item
WUpload(w) ==
    /\ Running
    /\ wk[w].pc = "upload"
    /\ \E replies \in ReplyRuns(UploadReplies) :
        LET out == photos_upload_bytes(replies) IN
        IF out.result = "raised"
        THEN /\ Finish(w, "raised")
             /\ UNCHANGED <<countVars, rec>>
        ELSE IF out.result = "token"
        THEN /\ wk' = [wk EXCEPT ![w].pc = "enqueue"]
             /\ UNCHANGED <<fut, countVars, rec>>
        ELSE /\ record_failure(wk[w].f)
             /\ Finish(w, "finished")
    /\ UNCHANGED <<cfgVars, ledgerVars, shutdown, state_lock, persist, disk,
                   filenames, batchVars, seen, main_pc, crashed, verdict,
                   cache_added, enq, popped, calls, ckpt>>

\* An enqueue that appends and never sets the event
enqueue_unsignalled(w) ==
    /\ Running
    /\ wk[w].pc = "enqueue"
    /\ buffer' = Append(buffer, wk[w].f)
    /\ enq' = Append(enq, wk[w].f)
    /\ Finish(w, "finished")
    /\ UNCHANGED <<cfgVars, ledgerVars, countVars, shutdown, state_lock, persist,
                   disk, filenames, flush_event, stopped, ft_pc, fl, timed_wakes,
                   seen, main_pc, crashed, verdict, rec, cache_added, popped,
                   calls, ckpt>>

\* BatchCollector.enqueue, lines 830-841, then return "uploaded"
enqueue(w) ==
    /\ Running
    /\ wk[w].pc = "enqueue"
    /\ buffer' = Append(buffer, wk[w].f)
    /\ flush_event' = (flush_event \/ BufferFull(Append(buffer, wk[w].f)))
    /\ enq' = Append(enq, wk[w].f)
    /\ Finish(w, "finished")
    /\ UNCHANGED <<cfgVars, ledgerVars, countVars, shutdown, state_lock, persist,
                   disk, filenames, stopped, ft_pc, fl, timed_wakes, seen, main_pc,
                   crashed, verdict, rec, cache_added, popped, calls, ckpt>>

(***************************************************************************)
(* main(), lines 1260-1319                                                 *)
(***************************************************************************)
Completed(f) == fut[f] \in {"finished", "raised", "cancelled"}

\* _handle_interrupt: the first Ctrl+C sets state.shutdown.  Nothing reads the
\* flag once the with-block of the executor is left.
SigInt ==
    /\ Running
    /\ Fault("sigint")
    /\ main_pc \in {"pool", "pool_exit"}
    /\ ~shutdown
    /\ shutdown' = TRUE
    /\ UNCHANGED <<cfgVars, ledgerVars, countVars, state_lock, persist, disk,
                   filenames, batchVars, poolVars, main_pc, crashed, obsVars>>

(***************************************************************************)
(* src/sync_drive/sync_engine.py: SyncEngine.run without a console, i.e.   *)
(* _run_plain over the listed files, each file through _sync_one.  Every   *)
(* call of a client may raise.  The destination holds the paths eng.dest:  *)
(* find_file answers from it and an upload adds to it.                     *)
(***************************************************************************)
DUPLICATE_MODES == {"skip", "overwrite", "duplicate"}
EngPath == eng.files[eng.i]

\* the for loop of _run_plain goes on to the next file, or run() returns
EngNextFile(e) ==
    [e EXCEPT !.i = @ + 1, !.existing = FALSE,
              !.pc = IF e.i = Len(e.files) THEN "returned" ELSE "find"]
\* lines 175-177: except Exception: result.failed.append(rel_path)
EngFailed(e) == EngNextFile([e EXCEPT !.failed = Append(@, e.files[e.i])])

EngUnchanged == UNCHANGED <<args, total, env, http, lk, sig, tok, shutdown, RunVars>>

\* A duplicate check that records the skip and goes on with the file
EngFindNoReturn ==
    /\ eng.pc = "find"
    /\ \E ok \in BOOLEAN :
          eng' = IF ~ok THEN EngFailed(eng)
                 ELSE IF EngPath \in eng.dest /\ eng.on_duplicate = "skip"
                 THEN [eng EXCEPT !.skipped = Append(@, EngPath),
                                  !.pc = "download", !.existing = TRUE]
                 ELSE [eng EXCEPT !.pc = "download",
                                  !.existing = (EngPath \in eng.dest)]
    /\ EngUnchanged

\* _sync_one, lines 241-252: ensure_path, find_file, the skip of a duplicate
EngFind ==
    /\ eng.pc = "find"
    /\ \E ok \in BOOLEAN :
          eng' = IF ~ok THEN EngFailed(eng)
                 ELSE IF EngPath \in eng.dest /\ eng.on_duplicate = "skip"
                 THEN EngNextFile([eng EXCEPT !.skipped = Append(@, EngPath)])
                 ELSE [eng EXCEPT !.pc = "download",
                                  !.existing = (EngPath \in eng.dest)]
    /\ EngUnchanged

\* _sync_one, lines 265-269: download_file, result.transferred.append
EngDownload ==
    /\ eng.pc = "download"
    /\ \E ok \in BOOLEAN :
          eng' = IF ~ok THEN EngFailed(eng)
                 ELSE [eng EXCEPT !.transferred = Append(@, EngPath),
                                  !.pc = "upload"]
    /\ EngUnchanged

\* _sync_one, lines 283-292: update_file of the existing file in overwrite
\* mode, upload_file otherwise
EngUpload ==
    /\ eng.pc = "upload"
    /\ \E ok \in BOOLEAN :
          eng' = IF ~ok THEN EngFailed(eng)
                 ELSE [eng EXCEPT !.dest = @ \cup {EngPath}, !.pc = "verify"]
    /\ EngUnchanged

\* _sync_one, lines 299-304: verify_integrity raises, or answers True or False
EngVerify ==
    /\ eng.pc = "verify"
    /\ \E out \in {"raised", "match", "mismatch"} :
          eng' = IF out = "match"
                 THEN EngNextFile([eng EXCEPT !.verified = Append(@, EngPath)])
                 ELSE EngFailed(eng)
    /\ EngUnchanged

\* _refresh_token_if_needed(creds), lines 423-427, called by the workers (line
\* 1014), step by step.  The access token expires when its lifetime is over.
TokenSteps(w, pc) == tok' = [tok EXCEPT !.pc[w] = pc]

TokenExpires ==
    /\ tok.valid
    /\ tok.expiries < MaxExpiries
    /\ tok' = [tok EXCEPT !.valid = FALSE, !.expiries = @ + 1]
    /\ UNCHANGED <<args, total, env, eng, http, lk, sig, shutdown, RunVars>>

\* a worker calls _refresh_token_if_needed
TokenCall(w) ==
    /\ tok.pc[w] = "idle"
    /\ tok.calls < total
    /\ tok' = [tok EXCEPT !.pc[w] = "acquire", !.calls = @ + 1]
    /\ UNCHANGED <<args, total, env, eng, http, lk, sig, shutdown, RunVars>>

\* A call that goes on to the test without taking the lock
TokenEnterUnlocked(w) ==
    /\ tok.pc[w] = "acquire"
    /\ TokenSteps(w, "test")
    /\ UNCHANGED <<args, total, env, eng, http, lk, sig, shutdown, RunVars>>

\* line 425: with _creds_refresh_lock: (enter)
TokenEnter(w) ==
    /\ tok.pc[w] = "acquire"
    /\ tok.lock = 0
    /\ tok' = [tok EXCEPT !.pc[w] = "test", !.lock = w]
    /\ UNCHANGED <<args, total, env, eng, http, lk, sig, shutdown, RunVars>>

\* line 426: if not creds.valid:
TokenTest(w) ==
    /\ tok.pc[w] = "test"
    /\ TokenSteps(w, IF tok.valid THEN "release" ELSE "refresh")
    /\ UNCHANGED <<args, total, env, eng, http, lk, sig, shutdown, RunVars>>

\* line 427: creds.refresh(Request()) returns with a new token, or raises
TokenRefresh(w) ==
    /\ tok.pc[w] = "refresh"
    /\ \E ok \in (IF Fault("refresh") THEN BOOLEAN ELSE {TRUE}) :
          tok' = [tok EXCEPT !.pc[w] = "release",
                             !.valid = IF ok THEN TRUE ELSE @,
                             !.refreshed = IF ok THEN @ + 1 ELSE @]
    /\ UNCHANGED <<args, total, env, eng, http, lk, sig, shutdown, RunVars>>

\* the with-block ends, by return or by the exception of refresh
TokenLeave(w) ==
    /\ tok.pc[w] = "release"
    /\ tok' = [tok EXCEPT !.pc[w] = "idle",
                          !.lock = IF @ = w THEN 0 ELSE @]
    /\ UNCHANGED <<args, total, env, eng, http, lk, sig, shutdown, RunVars>>

\* _handle_interrupt step by step.  signal.signal (line 1268) installs it for
\* the rest of the run.  CPython calls a Python-level handler in the main
\* thread between two bytecodes, and does so inside a handler that is still
\* running as well: a signal delivered then starts a nested call.
TopFrame == sig.frames[Len(sig.frames)]
PopFrame == SubSeq(sig.frames, 1, Len(sig.frames) - 1)
HandlerIdle == sig.frames = <<>>

\* SIGINT is delivered: the main thread enters _handle_interrupt
SignalArrives ==
    /\ Running
    /\ Fault("sigint")
    /\ sig.sent < MaxSignals
    /\ sig' = [sig EXCEPT !.sent = @ + 1, !.frames = Append(@, "test")]
    /\ UNCHANGED <<args, total, env, eng, http, lk, tok, shutdown, RunVars>>

\* line 1261: if not state.shutdown.is_set():
HandlerTest ==
    /\ Running
    /\ ~HandlerIdle
    /\ TopFrame = "test"
    /\ sig' = [sig EXCEPT !.frames = IF shutdown THEN PopFrame
                                      ELSE [@ EXCEPT ![Len(@)] = "print"]]
    /\ UNCHANGED <<args, total, env, eng, http, lk, tok, shutdown, RunVars>>

\* lines 1262-1265: print("Interrupt received ...")
HandlerPrint ==
    /\ Running
    /\ ~HandlerIdle
    /\ TopFrame = "print"
    /\ sig' = [sig EXCEPT !.notices = @ + 1, !.frames[Len(sig.frames)] = "set"]
    /\ UNCHANGED <<args, total, env, eng, http, lk, tok, shutdown, RunVars>>

\* line 1266: state.shutdown.set(), and the handler returns
HandlerSet ==
    /\ Running
    /\ ~HandlerIdle
    /\ TopFrame = "set"
    /\ shutdown' = TRUE
    /\ sig' = [sig EXCEPT !.frames = PopFrame]
    /\ UNCHANGED <<args, total, env, eng, http, lk, tok, RunVars>>

\* lines 1299-1311: one iteration of "for future in as_completed(futures)"
AsCompleted ==
    /\ Running
    /\ main_pc = "pool"
    /\ \E f \in Files \ seen :
        /\ Completed(f)
        /\ IF shutdown
           THEN \* cancel the futures that have not started, and break
                /\ fut' = [g \in Files |-> IF fut[g] = "pending" THEN "cancelled"
                                            ELSE fut[g]]
                /\ main_pc' = "pool_exit"
                /\ UNCHANGED <<seen, countVars, rec>>
           ELSE /\ seen' = seen \cup {f}
                /\ IF fut[f] = "raised"
                   THEN record_failure(f)
                   ELSE UNCHANGED <<countVars, rec>>
                /\ UNCHANGED <<fut, main_pc>>
    /\ UNCHANGED <<cfgVars, ledgerVars, shutdown, state_lock, persist, disk,
                   filenames, batchVars, wk, crashed, verdict, cache_added, enq,
                   popped, calls, ckpt>>

\* as_completed is exhausted: the for loop ends
PoolLoopEnd ==
    /\ Running
    /\ main_pc = "pool"
    /\ seen = Files
    /\ main_pc' = "pool_exit"
    /\ UNCHANGED <<cfgVars, ledgerVars, countVars, shutdown, state_lock, persist,
                   disk, filenames, batchVars, poolVars, crashed, obsVars>>

\* the with-block ends: executor.shutdown(wait=True) returns once no work item
\* is queued or running; main goes on to batch_collector.drain()
ExecutorExit ==
    /\ Running
    /\ main_pc = "pool_exit"
    /\ \A f \in Files : Completed(f)
    /\ main_pc' = "drain_stop"
    /\ UNCHANGED <<cfgVars, ledgerVars, countVars, shutdown, state_lock, persist,
                   disk, filenames, batchVars, poolVars, crashed, obsVars>>

\* state.flush(): take the lock and enter _persist
StateFlush ==
    /\ Running
    /\ main_pc = "flush"
    /\ state_lock = "free"
    /\ persist = "idle"
    /\ BeginPersist("main")
    /\ UNCHANGED <<cfgVars, ledgerVars, countVars, shutdown, disk, filenames,
                   batchVars, poolVars, main_pc, crashed, verdict, rec,
                   cache_added, enq, popped, calls>>

(***************************************************************************)
(* The process is killed, and the next run loads the ledger.               *)
(***************************************************************************)
Crash ==
    /\ Running
    /\ Fault("kill")
    /\ crashed' = TRUE
    /\ \E torn \in (IF IsWrite(persist) THEN BOOLEAN ELSE {FALSE}) :
        disk' = IF torn THEN SaveOpen(disk, PathOf(persist)) ELSE disk
    /\ UNCHANGED <<cfgVars, ledgerVars, countVars, shutdown, state_lock, persist,
                   filenames, batchVars, poolVars, main_pc, obsVars>>

\* SyncState.__init__ of the next run: _load_json_set of both files
Restart ==
    /\ crashed
    /\ main_pc \notin {"restarted", "load_error"}
    /\ IF LoadFails("ids") \/ LoadFails("hashes")
       THEN /\ main_pc' = "load_error"
            /\ UNCHANGED <<uploaded_ids, uploaded_hashes>>
       ELSE /\ main_pc' = "restarted"
            /\ uploaded_ids' = _load_json_set("ids")
            /\ uploaded_hashes' = _load_json_set("hashes")
    /\ ops_since_save' = 0
    /\ success_count' = 0
    /\ fail_count' = 0
    /\ skip_count' = 0
    /\ UNCHANGED <<cfgVars, shutdown, state_lock, persist, disk, filenames,
                   batchVars, poolVars, crashed, obsVars>>

(***************************************************************************)
(* The locks: SyncState._lock ("state"), PhotosFilenameCache._lock          *)
(* ("cache") and BatchCollector._lock ("buffer"), as the with-blocks of the *)
(* methods take and release them.  A thread is a worker, the flush thread   *)
(* or main; it calls the methods its code calls, in any order.              *)
(***************************************************************************)
Acq(l) == [op |-> "acquire", lock |-> l]
Rel(l) == [op |-> "release", lock |-> l]

\* A _do_flush whose with-block reaches down to the end of the results loop
LockStepsNested(m) ==
    IF m = "_do_flush"
    THEN <<Acq("buffer"), Acq("state"), Rel("state"), Acq("cache"), Rel("cache"),
           Rel("buffer")>>
    ELSE IF m = "_do_flush_failed"
    THEN <<Acq("buffer"), Acq("state"), Rel("state"), Rel("buffer")>>
    ELSE IF m \in {"contains", "add"} THEN <<Acq("cache"), Rel("cache")>>
    ELSE IF m = "enqueue" THEN <<Acq("buffer"), Rel("buffer")>>
    ELSE <<Acq("state"), Rel("state")>>

\* The lock steps of one call of a method:
\*   is_uploaded_id, is_uploaded_hash, record_success (with its _persist),
\*   record_failure, record_skip, flush: one with self._lock block of SyncState;
\*   contains, add: one with self._lock block of PhotosFilenameCache;
\*   enqueue: one with self._lock block of BatchCollector;
\*   _do_flush: the with-block of the pop (lines 865-869), which ends before
\*   the request; then, for a result, record_success and photos_cache.add
\*   (lines 923-926) or, for a failure, record_failure.
LockSteps(m) ==
    IF m = "_do_flush"
    THEN <<Acq("buffer"), Rel("buffer"), Acq("state"), Rel("state"),
           Acq("cache"), Rel("cache")>>
    ELSE IF m = "_do_flush_failed"
    THEN <<Acq("buffer"), Rel("buffer"), Acq("state"), Rel("state")>>
    ELSE IF m \in {"contains", "add"} THEN <<Acq("cache"), Rel("cache")>>
    ELSE IF m = "enqueue" THEN <<Acq("buffer"), Rel("buffer")>>
    ELSE <<Acq("state"), Rel("state")>>

LockThreads == {<<"worker", w>> : w \in Workers} \cup {<<t, 0>> : t \in FlushThreads}

\* the methods each thread calls: process_one_file in a worker (lines
\* 984-1050), _flush_loop in the flush thread, and in main the pending filter
\* (1191), the as_completed loop (1311), drain (1314) and state.flush (1319)
MethodsOf(t) ==
    IF t[1] = "ft" THEN {"_do_flush", "_do_flush_failed"}
    ELSE IF t[1] = "main"
    THEN {"is_uploaded_id", "contains", "record_failure", "_do_flush",
          "_do_flush_failed", "flush"}
    ELSE {"contains", "is_uploaded_hash", "record_skip", "record_failure",
          "enqueue", "record_success", "add"}

LockCall(t) ==
    /\ lk.todo[t] = <<>>
    /\ \E m \in MethodsOf(t) : lk' = [lk EXCEPT !.todo[t] = LockSteps(m)]
    /\ UNCHANGED <<args, total, env, eng, http, sig, tok, ledgerVars, countVars, shutdown,
                   state_lock, persist, disk, filenames, batchVars, poolVars,
                   main_pc, crashed, obsVars>>

\* threading.Lock.acquire: the thread goes on when the lock is free
LockAcquire(t) ==
    /\ lk.todo[t] # <<>>
    /\ Head(lk.todo[t]).op = "acquire"
    /\ lk.holder[Head(lk.todo[t]).lock] = NoThread
    /\ lk' = [lk EXCEPT !.holder[Head(lk.todo[t]).lock] = t,
                        !.todo[t] = Tail(@)]
    /\ UNCHANGED <<args, total, env, eng, http, sig, tok, ledgerVars, countVars, shutdown,
                   state_lock, persist, disk, filenames, batchVars, poolVars,
                   main_pc, crashed, obsVars>>

\* the end of the with-block
LockRelease(t) ==
    /\ lk.todo[t] # <<>>
    /\ Head(lk.todo[t]).op = "release"
    /\ lk' = [lk EXCEPT !.holder[Head(lk.todo[t]).lock] = NoThread,
                        !.todo[t] = Tail(@)]
    /\ UNCHANGED <<args, total, env, eng, http, sig, tok, ledgerVars, countVars, shutdown,
                   state_lock, persist, disk, filenames, batchVars, poolVars,
                   main_pc, crashed, obsVars>>

(***************************************************************************)
(* main(), lines 1206-1209: the name index is loaded before the pool.       *)
(***************************************************************************)
\* main and ensure_loaded, lines 296-315: no index without a name mode; the
\* snapshot on disk is loaded unless --refresh-cache is given or no file
\* exists (json.load raises on a file that is not complete JSON); otherwise
\* _rebuild is called.  After the index is loaded main goes on to create the
\* BatchCollector, whose thread starts, and to submit the files.
EnsureLoaded ==
    /\ Running
    /\ main_pc = "ensure_loaded"
    /\ IF ~HasPhotosCache
       THEN /\ main_pc' = "pool"
            /\ ft_pc' = "start"
            /\ UNCHANGED filenames
       ELSE IF ~args.refresh_cache /\ disk.cache.st # "absent"
       THEN IF disk.cache.st = "truncated"
            THEN /\ main_pc' = "raised"
                 /\ UNCHANGED <<ft_pc, filenames>>
            ELSE /\ filenames' = disk.cache.data
                 /\ main_pc' = "pool"
                 /\ ft_pc' = "start"
       ELSE /\ main_pc' = "rebuild"
            /\ UNCHANGED <<ft_pc, filenames>>
    /\ UNCHANGED <<cfgVars, ledgerVars, countVars, shutdown, state_lock, persist,
                   disk, buffer, flush_event, stopped, fl, timed_wakes, poolVars,
                   crashed, obsVars>>

\* _rebuild, lines 317-366: the scan of the library; self.filenames is assigned
\* the names found (a non-200 reply ends the scan with the names found so far)
Rebuild ==
    /\ Running
    /\ main_pc = "rebuild"
    /\ \E found \in (IF Fault("http_err") THEN SUBSET env.world.names
                      ELSE {env.world.names}) :
          filenames' = found
    /\ main_pc' = "cache_open"
    /\ UNCHANGED <<cfgVars, ledgerVars, countVars, shutdown, state_lock, persist,
                   disk, batchVars, poolVars, crashed, obsVars>>

\* _rebuild, line 377: open(PHOTOS_FILENAME_CACHE_FILE, "w") creates or
\* truncates the snapshot file itself
CacheOpen ==
    /\ Running
    /\ main_pc = "cache_open"
    /\ disk' = [disk EXCEPT !.cache = TRUNCATED]
    /\ main_pc' = "cache_dump"
    /\ UNCHANGED <<cfgVars, ledgerVars, countVars, shutdown, state_lock, persist,
                   filenames, batchVars, poolVars, crashed, obsVars>>

\* _rebuild, lines 378-380: json.dump and the close complete the file
CacheDump ==
    /\ Running
    /\ main_pc = "cache_dump"
    /\ disk' = [disk EXCEPT !.cache = Stored(filenames)]
    /\ main_pc' = "pool"
    /\ ft_pc' = "start"
    /\ UNCHANGED <<cfgVars, ledgerVars, countVars, shutdown, state_lock, persist,
                   filenames, buffer, flush_event, stopped, fl, timed_wakes,
                   poolVars, crashed, obsVars>>

\* The command is run again after main() returned, on the same file list and
\* the ledger files the first run left: SyncState() loads them and starts its
\* counters at 0, main() keeps the files whose id is not in the ledger (lines
\* 1190-1194) and returns at line 1202 when none is left; otherwise it goes on
\* to the pool with the files kept.
StillPending == {f \in Files : f \notin _load_json_set("ids")}

Rerun ==
    /\ main_pc = "done"
    /\ ~LoadFails("ids") /\ ~LoadFails("hashes")
    /\ uploaded_ids' = _load_json_set("ids")
    /\ uploaded_hashes' = _load_json_set("hashes")
    /\ ops_since_save' = 0
    /\ success_count' = 0
    /\ fail_count' = 0
    /\ skip_count' = 0
    /\ shutdown' = FALSE
    /\ main_pc' = IF StillPending = {} THEN "nothing_new" ELSE "rerun_pool"
    /\ UNCHANGED <<cfgVars, state_lock, persist, disk, filenames, batchVars,
                   poolVars, crashed, obsVars>>

(***************************************************************************)
(* Specifications                                                          *)
(***************************************************************************)
\* The steps every run takes
Pipeline ==
    \/ \E w \in Workers :
          \/ WClaim(w) \/ WBegin(w) \/ WDownload(w)
          \/ WRefresh(w) \/ WUpload(w) \/ enqueue(w)
    \/ \E t \in FlushThreads :
          \/ FlushPop(t) \/ FlushPost(t) \/ FlushApply(t) \/ PersistStep(t)
    \/ FtCheck \/ FtWake
    \/ AsCompleted \/ PoolLoopEnd \/ ExecutorExit
    \/ DrainStop \/ DrainSet \/ DrainJoin \/ StateFlush

\* An environment where the faults F may occur, any result list may come back
\* and the timed flush is free to fire
Env(F, w) ==
    [faults |-> F, results |-> "any", fail_at |-> {}, wake_cap |-> FALSE,
     world |-> w]

\* The small runs: NumFiles files, NumWorkers workers, each dedup mode, with the
\* faults of the destination, of the source, of the disk and of the user.
SmallRuns ==
    { [mode |-> "none", save_every |-> 1, world |-> EmptyWorld,
       faults |-> {"r429", "http_err", "exc", "mismatch", "item_fail"}],
      [mode |-> "none", save_every |-> 1, world |-> EmptyWorld,
       faults |-> {"sigint", "refresh"}],
      [mode |-> "none", save_every |-> 1, world |-> EmptyWorld,
       faults |-> {"io_err", "item_fail"}],
      [mode |-> "none", save_every |-> DEFAULT_SAVE_EVERY, world |-> EmptyWorld,
       faults |-> {"dl_fail", "refresh"}],
      [mode |-> "none", save_every |-> DEFAULT_SAVE_EVERY, world |-> EmptyWorld,
       faults |-> {"exc"}],
      [mode |-> "filename", save_every |-> 1, world |-> EmptyWorld,
       faults |-> {"io_err", "item_fail"}],
      [mode |-> "hash", save_every |-> DEFAULT_SAVE_EVERY, world |-> UsedWorld,
       faults |-> {"item_fail"}],
      [mode |-> "filename+hash", save_every |-> DEFAULT_SAVE_EVERY,
       world |-> UsedWorld, faults |-> {"r429", "http_err"}] }

Init ==
    \E r \in SmallRuns :
        InitWith([workers |-> NumWorkers, save_every |-> r.save_every,
                  dedup_mode |-> r.mode, refresh_cache |-> FALSE],
                 NumFiles, Env(r.faults, r.world), 0)

Next ==
    \/ Pipeline
    \/ \E w \in Workers : WName(w) \/ WHash(w)
    \/ \E t \in FlushThreads : FlushFailAll(t) \/ FlushCacheAdd(t)
    \/ SigInt

Spec == Init /\ [][Next]_vars

\* Runs in which the process may be killed at any step, and the next run then
\* loads the ledger: hash mode, a checkpoint after every success.
InitCrash ==
    \E w \in {EmptyWorld, UsedWorld} :
        InitWith([workers |-> NumWorkers, save_every |-> 1, dedup_mode |-> "hash", refresh_cache |-> FALSE],
                 NumFiles, Env({"kill"}, w), 0)

NextCrash ==
    \/ Pipeline
    \/ \E w \in Workers : WHash(w)
    \/ Crash
    \/ Restart

SpecCrash == InitCrash /\ [][NextCrash]_vars

\* Runs with a checkpoint every CrashSaveEvery successes in which the process
\* may be killed at any step, a step of _persist included.
InitCrashK ==
    InitWith([workers |-> NumWorkers, save_every |-> CrashSaveEvery,
              dedup_mode |-> "none", refresh_cache |-> FALSE],
             NumFiles, Env({"kill"}, EmptyWorld), 0)

NextCrashK ==
    \/ Pipeline
    \/ Crash
    \/ Restart

SpecCrashK == InitCrashK /\ [][NextCrashK]_vars

\* The large batch: 120 pending files; the destination fails the items at
\* positions 3 and 47 of every batch; the run is taken up when all files but
\* the last one of each worker are in the buffer.
InitBatch ==
    InitWith([workers |-> NumWorkers, save_every |-> DEFAULT_SAVE_EVERY,
              dedup_mode |-> "none", refresh_cache |-> FALSE],
             120,
             [faults |-> {}, results |-> "fixed", fail_at |-> {3, 47},
              wake_cap |-> TRUE, world |-> EmptyWorld],
             120 - NumWorkers)

SpecBatch == InitBatch /\ [][Pipeline]_vars

\* A first run in which the destination may refuse items, then the same command
\* again.
InitRerun ==
    InitWith([workers |-> NumWorkers, save_every |-> DEFAULT_SAVE_EVERY,
              dedup_mode |-> "none", refresh_cache |-> FALSE],
             NumFiles, Env({"item_fail"}, EmptyWorld), 0)

NextRerun ==
    \/ Pipeline
    \/ Rerun

SpecRerun == InitRerun /\ [][NextRerun]_vars

\* photos_upload_bytes, the request loop of _do_flush (for a batch of one
\* item) and download_file on their own: every sequence of MAX_RETRIES replies - 200, 429, 503,
\* 403 or a transport error - that their attempts can meet.
RetryEnv == Env({"r429", "http_err", "exc"}, EmptyWorld)

InitRetry ==
    /\ InitRun([workers |-> NumWorkers, save_every |-> DEFAULT_SAVE_EVERY,
                dedup_mode |-> "none", refresh_cache |-> FALSE], 1, RetryEnv, 0)
    /\ \E kind \in {"upload", "batch", "download"} :
         \E replies \in [1..MAX_RETRIES ->
                            IF kind = "batch" THEN BatchReplies(1) ELSE UploadReplies] :
            http = [kind |-> kind, replies |-> replies, out |-> NoOut]
    /\ lk = NoLocks
    /\ sig = NoSignals
    /\ tok = NoToken
    /\ eng = NoEngine

NextRetry ==
    \/ CallUpload
    \/ CallBatch
    \/ CallDownload

SpecRetry == InitRetry /\ [][NextRetry]_vars

\* SyncState on its own: a fresh or a loaded ledger, a checkpoint interval that
\* the client's calls do not reach, so that its only checkpoint is its flush().
InitLedger ==
    \E w \in {EmptyWorld, UsedWorld} :
        /\ InitAt([workers |-> NumWorkers, save_every |-> DEFAULT_SAVE_EVERY,
                   dedup_mode |-> "hash", refresh_cache |-> FALSE], NumFiles, Env({}, w), 0, "api")
        /\ http = NoCall
        /\ lk = NoLocks
        /\ sig = NoSignals
        /\ tok = NoToken
        /\ eng = NoEngine

NextLedger ==
    \/ ApiRecordSuccess
    \/ ApiRecordFailure
    \/ ApiRecordSkip
    \/ ApiDone
    \/ StateFlush
    \/ PersistStep("main")

SpecLedger == InitLedger /\ [][NextLedger]_vars

\* Runs taken up before the name index is loaded, in which the process may be
\* killed at any step: a first scan, a snapshot loaded from disk, and a rescan
\* asked for with --refresh-cache over the snapshot of an earlier run.
CacheRuns ==
    { [world |-> UnscannedWorld, refresh |-> FALSE],
      [world |-> UsedWorld, refresh |-> FALSE],
      [world |-> UsedWorld, refresh |-> TRUE] }

InitCache ==
    \E r \in CacheRuns :
        /\ InitAt([workers |-> NumWorkers, save_every |-> DEFAULT_SAVE_EVERY,
                   dedup_mode |-> "filename", refresh_cache |-> r.refresh],
                  NumFiles, Env({"kill"}, r.world), 0, "ensure_loaded")
        /\ http = NoCall
        /\ lk = NoLocks
        /\ sig = NoSignals
        /\ tok = NoToken
        /\ eng = NoEngine

NextCache ==
    \/ Pipeline
    \/ \E w \in Workers : WName(w)
    \/ \E t \in FlushThreads : FlushCacheAdd(t)
    \/ EnsureLoaded
    \/ Rebuild
    \/ CacheOpen
    \/ CacheDump
    \/ Crash

SpecCache == InitCache /\ [][NextCache]_vars

\* A run in which Ctrl+C may be pressed MaxSignals times, at any moment from
\* the start of the pool to the end of main(): the worker threads and the flush
\* thread run on while the main thread is inside the handler.
InitSignal ==
    InitWith([workers |-> NumWorkers, save_every |-> 1, dedup_mode |-> "none",
              refresh_cache |-> FALSE],
             NumFiles, Env({"sigint"}, EmptyWorld), 0)

NextSignal ==
    \/ \E w \in Workers :
          \/ WClaim(w) \/ WBegin(w) \/ WDownload(w)
          \/ WRefresh(w) \/ WUpload(w) \/ enqueue(w)
    \/ FlushPop("ft") \/ FlushPost("ft") \/ FlushApply("ft") \/ PersistStep("ft")
    \/ FtCheck \/ FtWake
    \/ /\ HandlerIdle
       /\ \/ AsCompleted \/ PoolLoopEnd \/ ExecutorExit
          \/ DrainStop \/ DrainSet \/ DrainJoin \/ StateFlush
          \/ FlushPop("main") \/ FlushPost("main") \/ FlushApply("main")
          \/ PersistStep("main")
    \/ SignalArrives \/ HandlerTest \/ HandlerPrint \/ HandlerSet

SpecSignal == InitSignal /\ [][NextSignal]_vars

\* The workers calling _refresh_token_if_needed, once per file, while the
\* token expires at any moment and a refresh request may fail.
InitToken ==
    /\ InitRun([workers |-> NumWorkers, save_every |-> DEFAULT_SAVE_EVERY,
                dedup_mode |-> "none", refresh_cache |-> FALSE],
               NumFiles, Env({"refresh"}, EmptyWorld), 0)
    /\ http = NoCall
    /\ lk = NoLocks
    /\ sig = NoSignals
    /\ tok = [NoToken EXCEPT !.pc = [w \in 1..NumWorkers |-> "idle"]]
    /\ eng = NoEngine

NextToken ==
    \/ TokenExpires
    \/ \E w \in Workers :
          \/ TokenCall(w) \/ TokenEnter(w) \/ TokenTest(w)
          \/ TokenRefresh(w) \/ TokenLeave(w)

SpecToken == InitToken /\ [][NextToken]_vars

\* SyncEngine.run over every listing of up to MaxListed files with paths in
\* 1..MaxListed (a source may list one path twice: Google Drive holds files
\* of the same name in one folder), every duplicate mode and every set of
\* paths present at the destination.
Listings == UNION {[1..n -> 1..MaxListed] : n \in 0..MaxListed}

InitEngine ==
    /\ InitRun([workers |-> NumWorkers, save_every |-> DEFAULT_SAVE_EVERY,
                dedup_mode |-> "none", refresh_cache |-> FALSE],
               NumFiles, Env({}, EmptyWorld), 0)
    /\ http = NoCall
    /\ lk = NoLocks
    /\ sig = NoSignals
    /\ tok = NoToken
    /\ \E files \in Listings, mode \in DUPLICATE_MODES, dest \in SUBSET (1..MaxListed) :
          eng = [NoEngine EXCEPT !.files = files, !.on_duplicate = mode,
                                 !.dest = dest, !.i = 1,
                                 !.pc = IF files = <<>> THEN "returned" ELSE "find"]

NextEngine == EngFind \/ EngDownload \/ EngUpload \/ EngVerify

SpecEngine == InitEngine /\ [][NextEngine]_vars

\* The workers, the flush thread and main taking the three locks.
InitLocks ==
    /\ InitRun([workers |-> NumWorkers, save_every |-> DEFAULT_SAVE_EVERY,
                dedup_mode |-> "filename+hash", refresh_cache |-> FALSE],
               NumFiles, Env({}, EmptyWorld), 0)
    /\ http = NoCall
    /\ lk = [holder |-> [l \in Locks |-> NoThread],
             todo |-> [t \in {<<"worker", w>> : w \in 1..NumWorkers}
                               \cup {<<f, 0>> : f \in FlushThreads} |-> <<>>]]
    /\ sig = NoSignals
    /\ tok = NoToken
    /\ eng = NoEngine

NextLocks ==
    \E t \in LockThreads : LockCall(t) \/ LockAcquire(t) \/ LockRelease(t)

SpecLocks == InitLocks /\ [][NextLocks]_vars

(***************************************************************************)
(* Properties                                                              *)
(***************************************************************************)
Times(seq, x) == Cardinality({i \in 1..Len(seq) : seq[i] = x})
IsPrefix(s, t) == Len(s) <= Len(t) /\ s = SubSeq(t, 1, Len(s))
Sizes == [i \in 1..Len(calls) |-> calls[i].size]
SetData(c) == IF c.st = "ok" THEN c.data ELSE {}

\* the destination confirmed the commit of f
Confirmed == {f \in Files : verdict[f] = "ok"}
\* no thread is working on a batch that holds f
Released(f) == \A t \in FlushThreads : ~InBatch(fl[t].batch, f)
\* drain() has returned
Drained == main_pc \in {"flush", "done"}

\* C1: when the run ends (pool, drain, state.flush all over), success_count +
\* fail_count + skip_count equals the number of items submitted to the pool.
C1_CountsConserved ==
    main_pc = "done" => success_count + fail_count + skip_count = total

\* C2: an id or a hash is in the ledger, and an item is counted as succeeded,
\* only if the destination has confirmed the commit of the corresponding item:
\* whatever the ledger holds beyond what was loaded belongs to confirmed items,
\* and success_count counts confirmed items, each once.
C2_OnlyConfirmedRecorded ==
    /\ uploaded_ids \subseteq LoadedIds(env) \cup Confirmed
    /\ uploaded_hashes \subseteq LoadedHashes(env) \cup {FileHash(f) : f \in Confirmed}
    /\ \A f \in Files : Times(rec[f], "succeeded") > 0 => f \in Confirmed
    /\ \A f \in Files : Times(rec[f], "succeeded") <= 1
    /\ success_count = Cardinality({f \in Files : Times(rec[f], "succeeded") = 1})

\* a confirmed item is in the ledger while a refused item of the same run and
\* an item of a failed call were recorded as failed
C2_Witness ==
    \E f, g, h \in Files :
        /\ verdict[f] = "ok" /\ f \in uploaded_ids /\ success_count >= 1
        /\ verdict[g] = "fail" /\ rec[g] = <<"failed">>
        /\ verdict[h] = "call_failed" /\ rec[h] = <<"failed">>

\* C3: if the process is killed after a checkpoint has begun and before it has
\* completed, the ledger loaded by the next run (ids and hashes) is the durable
\* state that existed before that checkpoint began.
C3_RestartLoadsPreCheckpoint ==
    (crashed /\ ckpt.active /\ main_pc \in {"restarted", "load_error"}) =>
        /\ main_pc = "restarted"
        /\ uploaded_ids = SetData(ckpt.ids)
        /\ uploaded_hashes = SetData(ckpt.hashes)

\* C4: at every step of _save_json_set, and after a kill at any of them, each
\* final path holds a complete set: during a checkpoint the one it held when the
\* checkpoint began or the new one, and never a cut-short file.
C4_FinalPathComplete ==
    /\ main_pc # "load_error"
    /\ \A path \in {"ids", "hashes"} :
          /\ disk[path].st # "truncated"
          /\ (ckpt.active /\ main_pc # "restarted") =>
                 disk[path] \in {ckpt[path], Stored(DataOf(path))}

\* the process was killed while writing the temporary file of the hashes, after
\* the new ids had replaced the old ones
C4_Witness ==
    /\ crashed /\ ckpt.active
    /\ disk["hashes_tmp"] = TRUNCATED
    /\ disk["ids"] # ckpt.ids
    /\ disk["ids"] = Stored(uploaded_ids)

\* C5: when drain() has returned the buffer is empty and every item enqueued
\* has an outcome recorded.
C5_DrainResolvesAll ==
    Drained => /\ buffer = <<>>
               /\ \A i \in 1..Len(enq) : rec[enq[i]] # <<>>

\* C6: once a flush is through with a batch the destination answered, every
\* item with a result is recorded by that result alone: a success is one
\* record_success and a name-index add, a failure is one record_failure.
C6_PerItemOutcome ==
    \A f \in Files :
        (Released(f) /\ verdict[f] \in {"ok", "fail"}) =>
            IF verdict[f] = "ok"
            THEN /\ rec[f] = <<"succeeded">>
                 /\ f \in uploaded_ids
                 /\ HasPhotosCache => f \in cache_added
            ELSE /\ rec[f] = <<"failed">>
                 /\ f \notin uploaded_ids
                 /\ f \notin cache_added

\* C7: every batch sent in a group-commit call has at least 1 and at most
\* BATCH_SIZE items.
C7_CallSizes ==
    /\ \A i \in 1..Len(calls) : calls[i].size >= 1 /\ calls[i].size <= BATCH_SIZE
    /\ \A t \in FlushThreads :
          fl[t].pc # "idle" /\ fl[t].pc # "pop" =>
              Len(fl[t].batch) >= 1 /\ Len(fl[t].batch) <= BATCH_SIZE

\* a call of BATCH_SIZE items was cut from a longer buffer, and a later call
\* carried fewer
C7_Witness ==
    \E i, j \in 1..Len(calls) :
        /\ i < j
        /\ calls[i].size = BATCH_SIZE /\ calls[i].of > BATCH_SIZE
        /\ calls[j].size < BATCH_SIZE

\* C8 as stated: 120 items and drain() give exactly the calls 50, 50, 20,
\* however the enqueues interleave with the wake-ups of the flush thread
\* (checked where drain has returned, the flush thread has ended and every
\* item has been sent).
C8_ExactlyThreeCalls ==
    (total = 120 /\ Drained /\ ft_pc = "exited" /\ popped = 120) =>
        Sizes = <<50, 50, 20>>

\* C8 amended: if all 120 items are in the buffer when the first flush pops,
\* the batches are cut 50, 50, 20 in that order: the calls made so far are
\* the first ones of that sequence, and all three once the buffer is empty.
C8_AllBufferedFirst ==
    (total = 120 /\ calls # <<>> /\ calls[1].of = 120) =>
        /\ IsPrefix(Sizes, <<50, 50, 20>>)
        /\ buffer = <<>> => Sizes = <<50, 50, 20>>

C8_Witness ==
    /\ total = 120 /\ main_pc = "done" /\ ft_pc = "exited"
    /\ calls # <<>> /\ calls[1].of = 120
    /\ Sizes = <<50, 50, 20>>

\* C9: the buffer is what was enqueued and not yet popped, in enqueue order;
\* a batch is a run of consecutive enqueued items, all of them popped; and
\* result i of a reply is applied to item i of the batch it answers.
C9_FifoPositional ==
    /\ buffer = SubSeq(enq, popped + 1, Len(enq))
    /\ \A t \in FlushThreads :
          LET b == fl[t].batch IN
          /\ b # <<>> => \E s \in 0..(popped - Len(b)) : b = SubSeq(enq, s + 1, s + Len(b))
          /\ fl[t].pc \in {"apply", "persist", "cache_add"} =>
                \A j \in 1..Len(b) :
                    (j < fl[t].i /\ j <= Len(fl[t].results)) =>
                        rec[b[j]] = <<IF fl[t].results[j] THEN "succeeded" ELSE "failed">>

\* the second batch starts where the first ended and is being applied past
\* position 47
C9_Witness ==
    \E t \in FlushThreads :
        /\ fl[t].pc = "apply" /\ fl[t].i = 48
        /\ fl[t].batch = SubSeq(enq, 51, 100)
        /\ rec[enq[53]] = <<"failed">> /\ rec[enq[97]] = <<"failed">>
        /\ rec[enq[52]] = <<"succeeded">>

\* C10: when a group-commit call ends in failure (429 on every attempt, or
\* another non-200 status), each item of the batch gets one record_failure and
\* no record_success, and is not added to the ledger or the name index.
C10_FailedCallFailsAll ==
    \A f \in Files :
        verdict[f] = "call_failed" =>
            /\ Times(rec[f], "succeeded") = 0
            /\ Times(rec[f], "failed") <= 1
            /\ f \notin uploaded_ids
            /\ f \notin cache_added
            /\ Released(f) => rec[f] = <<"failed">>

\* a batch of two items whose call failed has been gone through
C10_Witness ==
    \E f, g \in Files :
        /\ f # g
        /\ verdict[f] = "call_failed" /\ verdict[g] = "call_failed"
        /\ Released(f) /\ Released(g)
        /\ rec[f] = <<"failed">> /\ rec[g] = <<"failed">>
        /\ fail_count >= 2

\* an item that went through process_one_file and left no trace: not recorded,
\* not enqueued, its future completed without an exception
Untouched(f) ==
    /\ fut[f] = "finished"
    /\ rec[f] = <<>>
    /\ \A i \in 1..Len(enq) : enq[i] # f

\* C11: once the cancellation flag is set, a worker that is free or has only
\* just been handed an item (it has not yet passed the flag test that opens
\* process_one_file) never moves on to the name check, the download, the token
\* refresh, the byte upload or the enqueue: it stays free or returns at once.
C11_NoNewWorkAfterInterrupt ==
    [][\A w \in Workers :
          (shutdown /\ wk[w].pc \in {"idle", "begin"})
              => wk'[w].pc \in {"idle", "begin"}]_vars

\* the flag is set, a pending item was still handed to a worker and came back
\* untouched, while another item had already been enqueued
C11_Witness ==
    /\ shutdown
    /\ enq # <<>>
    /\ \E f \in Files : Untouched(f)

\* process_one_file went past its flag test for f: f was enqueued, or an outcome
\* was recorded for it, or its call raised
Begun(f) ==
    \/ \E i \in 1..Len(enq) : enq[i] = f
    \/ rec[f] # <<>>
    \/ fut[f] = "raised"

\* C12: when a cancelled run has returned (the flag was set; the pool, drain
\* and state.flush are over; the flush thread has ended), every item whose
\* processing had begun - an item enqueued for the group commit included - has
\* a recorded outcome.
C12_BegunItemsResolved ==
    (main_pc = "done" /\ shutdown /\ ft_pc = "exited")
        => \A f \in Files : Begun(f) => rec[f] # <<>>

\* C13: when main() is over - it returned, or an exception left it - on a run
\* whose ledger writes do not fail, the ledger files hold every id and every
\* hash that was recorded as uploaded during the run: drain() and the final
\* state.flush() were both executed.
C13_FinalCheckpointAlways ==
    (main_pc \in {"done", "raised"} /\ ~Fault("io_err"))
        => /\ uploaded_ids \subseteq SetData(disk.ids)
           /\ uploaded_hashes \subseteq SetData(disk.hashes)

\* an auto-checkpoint (the _persist call of a record_success) is running
AutoCheckpoint == persist # "idle" /\ \E t \in FlushThreads : fl[t].pc = "persist"

\* C14: with a checkpoint interval K, (a) outside a checkpoint fewer than K
\* successes were recorded since the previous checkpoint, (b) an
\* auto-checkpoint runs exactly when the counter stands at K, (c) the
\* record_success that brings the counter to K enters the checkpoint in the same
\* call and no other record_success does, and (d) every checkpoint that
\* completes, automatic or explicit, leaves the counter at 0.
C14_CheckpointEveryK ==
    /\ [](state_lock = "free" => ops_since_save < args.save_every)
    /\ [](AutoCheckpoint => ops_since_save = args.save_every)
    /\ [][success_count' = success_count + 1
            => (persist' # "idle" <=> ops_since_save + 1 = args.save_every)]_vars
    /\ [][(persist # "idle" /\ persist' = "idle") => ops_since_save' = 0]_vars

\* the second auto-checkpoint of a run is in progress: the counter was reset by
\* the first one and has reached K again with the 2K-th success
C14_Witness ==
    /\ AutoCheckpoint
    /\ args.save_every = DEFAULT_SAVE_EVERY
    /\ success_count = 2 * DEFAULT_SAVE_EVERY
    /\ ops_since_save = DEFAULT_SAVE_EVERY

\* the run that ended was fully successful: every file recorded exactly once,
\* as succeeded
FullySuccessful == \A f \in Files : rec[f] = <<"succeeded">>

\* C15: when the command is run again on the ledger left by a fully successful
\* run of N items, the second run ends with 0 succeeded and N skipped in its
\* counters (and nothing sent: it ends without a step of the pool).
C15_RerunSkipsAll ==
    (main_pc \in {"nothing_new", "rerun_pool"} /\ FullySuccessful)
        => /\ main_pc = "nothing_new"
           /\ success_count = 0
           /\ skip_count = total

Enqueued(f) == \E i \in 1..Len(enq) : enq[i] = f
\* the worker w takes a step of process_one_file
Moves(w) == wk'[w] # wk[w]
\* the step records the outcome o for the item of w and ends its call
Ends(w, o) ==
    /\ wk'[w].pc = "idle"
    /\ fut'[wk[w].f] = "finished"
    /\ rec'[wk[w].f] = Append(rec[wk[w].f], o)
    /\ enq' = enq

\* C16: in the name modes, (a) the worker that makes the name check of an item
\* whose name is in the index at that moment records it as skipped and ends
\* its call there, (b) a download is only ever started by a worker coming from
\* a name check that found no match, and (c) in the mode that skips by name
\* only, an item recorded as skipped has no other outcome, was never enqueued
\* and was never sent to the destination.
C16_NameSkipBeforeDownload ==
    /\ [][\A w \in Workers :
            (wk[w].pc = "name" /\ FileName(wk[w].f) \in filenames /\ Moves(w))
                => Ends(w, "skipped")]_vars
    /\ [][\A w \in Workers :
            (HasPhotosCache /\ wk'[w].pc = "download" /\ Moves(w))
                => (wk[w].pc = "name" /\ FileName(wk[w].f) \notin filenames)]_vars
    /\ [](args.dedup_mode = "filename"
            => \A f \in Files :
                  (\E i \in 1..Len(rec[f]) : rec[f][i] = "skipped")
                      => /\ rec[f] = <<"skipped">>
                         /\ ~Enqueued(f)
                         /\ verdict[f] = "none")

\* file 2 carries the name of file 1: file 1 was committed and its name added
\* to the index during the run, and file 2 was then skipped by its name
C16_Witness ==
    /\ args.dedup_mode = "filename"
    /\ 1 \in cache_added
    /\ rec[2] = <<"skipped">>
    /\ fut[2] = "finished"

\* C17: in the hash modes, (a) the hash check of an item is only ever reached
\* from its download, (b) the worker that makes the hash check of an item
\* whose hash is in the ledger at that moment records it as skipped and ends
\* its call there, before the token refresh, the byte upload and the enqueue,
\* and (c) in the mode that skips by hash only no name check is made and an
\* item is recorded as skipped only by a hash check that found its hash in the
\* ledger, whatever names exist at the destination.
C17_HashSkipAfterDownload ==
    /\ [][\A w \in Workers :
            (wk'[w].pc = "hash" /\ Moves(w)) => wk[w].pc = "download"]_vars
    /\ [][\A w \in Workers :
            (wk[w].pc = "hash" /\ is_uploaded_hash(FileHash(wk[w].f)) /\ Moves(w))
                => Ends(w, "skipped")]_vars
    /\ [](args.dedup_mode = "hash" => \A w \in Workers : wk[w].pc # "name")
    /\ [][\A f \in Files :
            (args.dedup_mode = "hash" /\ rec'[f] = Append(rec[f], "skipped"))
                => \E w \in Workers : /\ wk[w].f = f
                                       /\ wk[w].pc = "hash"
                                       /\ is_uploaded_hash(FileHash(f))]_vars

\* hash-only mode on the used world: file 2, whose content is in the ledger,
\* was skipped after its download, while file 3, whose name exists at the
\* destination, was not skipped and went on to the batcher
C17_Witness ==
    /\ args.dedup_mode = "hash"
    /\ rec[2] = <<"skipped">>
    /\ FileName(3) \in env.world.names
    /\ Enqueued(3)

\* the call under study has returned (or raised)
Called == http.kind \in {"upload", "batch"} /\ http.out # NoOut
\* the reply is a transient error: a rate limit or a server-side (5xx) error
Transient(r) == ~r.raised /\ (r.status = 429 \/ r.status \in 500..599)
Success(r) == ~r.raised /\ r.status = 200
Succeeded(out) == out.result \in {"token", "results"}
Failed(out) == out.result \in {"none", "failed"}

\* C18: for a call of photos_upload_bytes or of the batchCreate request loop,
\* (a) it makes an attempt n+1 only if n < 3 and the attempts 1..n all met a
\* transient error, (b) a transient error on all three attempts gives exactly 3
\* attempts and a failed outcome, and (c) a transient error followed by a
\* success gives exactly 2 attempts and a succeeded outcome.
C18_AttemptCounts ==
    Called =>
        /\ \A n \in 1..MAX_RETRIES :
              http.out.attempts >= n + 1
                  => (n < MAX_RETRIES /\ \A j \in 1..n : Transient(http.replies[j]))
        /\ (\A j \in 1..MAX_RETRIES : Transient(http.replies[j]))
              => (http.out.attempts = MAX_RETRIES /\ Failed(http.out))
        /\ (Transient(http.replies[1]) /\ Success(http.replies[2]))
              => (http.out.attempts = 2 /\ Succeeded(http.out))

\* C19: a call that is rate-limited (429) on each of its three attempts waits
\* exactly twice, base after the first attempt and 2 * base after the second,
\* and fails after the third attempt without a further wait.
C19_BackoffSchedule ==
    (Called /\ \A j \in 1..MAX_RETRIES : Is429(http.replies[j]))
        => /\ Failed(http.out)
           /\ http.out.waits = <<RETRY_BASE_DELAY, 2 * RETRY_BASE_DELAY>>

\* C20: a call whose first attempt meets a 5xx reply makes a second attempt,
\* as it does after a 429 reply; after a 4xx reply other than 429 it makes no
\* second attempt.
C20_ServerErrorsRetried ==
    Called =>
        /\ (Transient(http.replies[1]) => http.out.attempts >= 2)
        /\ (~http.replies[1].raised /\ http.replies[1].status = 403
              => (http.out.attempts = 1 /\ Failed(http.out)))

\* C21: a download whose first request meets a transient error (rate limit or
\* 5xx) makes a second request, and when that one succeeds the download
\* succeeds: the item is not failed; a download that meets a transient error
\* on every request is failed only after MAX_RETRIES requests.
C21_DownloadRetried ==
    (http.kind = "download" /\ http.out # NoOut /\ Transient(http.replies[1]))
        => /\ http.out.attempts >= 2
           /\ Success(http.replies[2]) => http.out.result = "data"
           /\ (\A j \in 1..MAX_RETRIES : Transient(http.replies[j]))
                 => http.out.attempts = MAX_RETRIES

\* C22: while the pool phase lasts (drain() has not been called) and the buffer
\* holds an item, the flush thread is alive, so that one of its wake-ups - on
\* the 3 s timeout at the latest - pops the item and sends it; a state where the
\* buffer is not empty, drain() is not yet called and the flush thread has ended
\* is one from which no scheduling of the flush thread ever sends the item.
C22_TimedFlushServesBuffer ==
    (main_pc \in {"pool", "pool_exit"} /\ buffer # <<>>) => ft_pc # "dead"

\* C23: once the pool is over, every item whose process_one_file call raised
\* (token refresh, transport error of the byte upload) has exactly one
\* recorded outcome, failed; download failures and refused uploads are
\* recorded as failed by the call itself.
C23_WorkerErrorsBecomeFailures ==
    main_pc \notin {"pool", "pool_exit"}
        => \A f \in Files : fut[f] = "raised" => rec[f] = <<"failed">>

\* C24: in runs where the only fault is a failing ledger write, the flush
\* thread never ends before drain() stops it: an OSError of the auto-checkpoint
\* inside record_success does not end the thread that flushes the batches.
C24_CheckpointFailureDoesNotHalt ==
    (Fault("io_err") /\ ~Fault("exc")) => ft_pc # "dead"

\* C25: in every step of a run - a record, a query, a checkpoint, the final
\* flush - uploaded_ids and uploaded_hashes are supersets of their previous
\* values: nothing is ever removed from the ledger.
C25_LedgerMonotone ==
    [][/\ uploaded_ids \subseteq uploaded_ids'
       /\ uploaded_hashes \subseteq uploaded_hashes']_vars

\* a run on a ledger loaded from disk has ended: the loaded id and hash are
\* still there beside the two ids and the hash recorded during the run, after
\* queries, records and the final checkpoint
C25_Witness ==
    /\ main_pc = "done"
    /\ env.world = UsedWorld
    /\ 0 \in uploaded_ids
    /\ 2 \in uploaded_hashes
    /\ Cardinality(uploaded_ids) >= 3
    /\ Cardinality(uploaded_hashes) >= 2

\* C26: a record_success for an id that is already in the ledger, with no hash
\* or a hash that is already there, changes nothing: the two sets, the success
\* counter and the records-since-checkpoint counter are what they were.
C26_RecordIdempotent ==
    [][\A f \in Files :
          (/\ rec'[f] = Append(rec[f], "succeeded")
           /\ is_uploaded_id(f)
           /\ uploaded_hashes' = uploaded_hashes)
              => /\ uploaded_ids' = uploaded_ids
                 /\ success_count' = success_count
                 /\ ops_since_save' = ops_since_save]_vars

\* C27: during the pool and drain phases no step removes a name from the
\* index - add only inserts, contains changes nothing - so the names loaded at
\* the start and the names added after a commit all stay in it.
C27_NameIndexMonotone ==
    /\ [][filenames \subseteq filenames']_vars
    /\ [](HasPhotosCache => env.world.names \subseteq filenames)
    /\ [](\A f \in cache_added : FileName(f) \in filenames)

\* a run in a name mode has ended: the index holds the name it was loaded with
\* and the name added after the commit of file 1, after the name checks of all
\* three files
C27_Witness ==
    /\ main_pc = "done"
    /\ HasPhotosCache
    /\ env.world.names = {3}
    /\ 1 \in cache_added
    /\ filenames = {1, 3}

\* C28: whenever the process is killed, the snapshot file of the name index is
\* the complete snapshot it held before the run (or is absent as before) or
\* the complete snapshot of the names just scanned: it is never a file cut
\* short.
C28_CacheSnapshotAtomic ==
    crashed => \/ disk.cache = env.world.cache
               \/ disk.cache = Stored(filenames)
               \/ disk.cache = Stored(env.world.names)

HeldBy(t) == {l \in Locks : lk.holder[l] = t}
\* t is at an acquire of a lock another thread holds
Waiting(t) ==
    /\ lk.todo[t] # <<>>
    /\ Head(lk.todo[t]).op = "acquire"
    /\ lk.holder[Head(lk.todo[t]).lock] # NoThread

\* C29: no thread holds two of the three locks at once, and a thread that
\* holds a lock is never waiting for another one - so no cycle of threads
\* waiting for each other can form, and whenever a thread waits some other
\* thread can take a step.
C29_OneLockAtATime ==
    /\ \A t \in LockThreads : Cardinality(HeldBy(t)) <= 1
    /\ \A t \in LockThreads : HeldBy(t) # {} => ~Waiting(t)
    /\ (\E t \in LockThreads : Waiting(t))
          => \E u \in LockThreads : lk.todo[u] # <<>> /\ ~Waiting(u)

\* the flush thread is in _do_flush past the pop, inside record_success with
\* the state lock, while a worker holds the buffer lock in enqueue, main holds
\* the cache lock in the add of its own _do_flush, and the other worker waits
\* for the state lock
C29_Witness ==
    /\ lk.holder = [state |-> <<"ft", 0>>, cache |-> <<"main", 0>>,
                    buffer |-> <<"worker", 1>>]
    /\ Len(lk.todo[<<"ft", 0>>]) = 3
    /\ Waiting(<<"worker", 2>>)

\* a checkpoint is between its first step and its last in a live process
InCheckpoint == persist # "idle" /\ ~crashed

\* C30: while a checkpoint is under way - from the write of the ids file to
\* the replacement of the hashes file, whether record_success or flush()
\* started it - no recording method of any thread takes effect: the sets and
\* the counters stay as they are, only the thread that holds the lock steps
\* the checkpoint, and the checkpoint that completes leaves on disk the id set
\* and the hash set of that one ledger state.
C30_CheckpointConsistentPair ==
    /\ [][InCheckpoint => UNCHANGED <<uploaded_ids, uploaded_hashes, success_count,
                                      fail_count, skip_count, rec>>]_vars
    /\ [][(InCheckpoint /\ ~crashed' /\ persist' = "idle")
            => /\ disk'.ids = Stored(uploaded_ids)
               /\ disk'.hashes = Stored(uploaded_hashes)]_vars
    /\ [](InCheckpoint => state_lock \in FlushThreads)
    /\ [](persist \in {"hashes_write", "hashes_replace"} /\ ~crashed
            => disk.ids = Stored(uploaded_ids))

\* the ids file is written and the hashes file is not yet, in a checkpoint
\* that one flush thread runs while the other has a result left to record
C30_Witness ==
    /\ InCheckpoint
    /\ persist = "hashes_write"
    /\ \E t \in FlushThreads :
          /\ t # state_lock
          /\ fl[t].pc = "apply"
          /\ fl[t].i <= Len(fl[t].batch)

\* C31: only the flush thread consumes the buffer: the thread of main(), in
\* drain(), never holds a batch it popped and never has a batchCreate call of
\* its own, so no two _do_flush calls are under way at the same time.
C31_FlushThreadOnlyConsumer ==
    /\ fl["main"].batch = <<>>
    /\ ~(fl["ft"].batch # <<>> /\ fl["main"].batch # <<>>)

\* a flush thread is between its pop and the end of its batchCreate request
InRequest(t) == fl[t].pc = "post"

\* C32: a step that appends an item to the buffer and leaves it with
\* _BATCH_SIZE items or more leaves the flush event set, in that same step
\* (the with-block of enqueue); and a worker that has reached enqueue can
\* always take that step, whatever the flush thread and drain() are doing -
\* a batchCreate request under way does not hold it back.
C32_EnqueueSignalsAndNeverWaits ==
    /\ [][(Len(enq') > Len(enq) /\ Len(buffer') >= BATCH_SIZE) => flush_event']_vars
    /\ [](\A w \in Workers :
            (Running /\ wk[w].pc = "enqueue") => ENABLED enqueue(w))

\* the last item was enqueued during the pool phase while the flush thread was
\* inside its request; the buffer holds a full batch again and the event is set
C32_Witness ==
    /\ main_pc = "pool"
    /\ Len(enq) = total
    /\ InRequest("ft")
    /\ Len(buffer) >= BATCH_SIZE
    /\ flush_event

\* the item was enqueued and has no outcome yet: it is in the buffer or in a
\* batch whose _do_flush has not come to it
Unresolved(f) == (\E i \in 1..Len(enq) : enq[i] = f) /\ rec[f] = <<>>
LeastIdle(w) == wk[w].pc = "idle" /\ \A v \in Workers : wk[v].pc = "idle" => w <= v

\* C33: the step in which a worker enqueues its item ends process_one_file: the
\* worker thread is free, the future is finished and no outcome was recorded
\* for the item in that step; while the pool lasts a free worker can take the
\* next pending item whatever the state of the buffer and of the batchCreate
\* calls; and a worker inside process_one_file can always take its next
\* step, except that a step which records an outcome or queries the ledger
\* waits for the SyncState lock while a checkpoint holds it.
C33_WorkerDoesNotWaitForBatch ==
    /\ [][\A w \in Workers :
            (wk[w].pc = "enqueue" /\ wk'[w] # wk[w])
               => /\ wk'[w] = IdleWorker
                  /\ fut'[wk[w].f] = "finished"
                  /\ rec'[wk[w].f] = rec[wk[w].f]]_vars
    /\ [](\A w \in Workers :
            (/\ Running
             /\ main_pc \in {"pool", "pool_exit"}
             /\ LeastIdle(w)
             /\ Pending # {}) => ENABLED WClaim(w))
    /\ [](\A w \in Workers :
            (Running /\ wk[w].pc \notin {"idle"} /\ state_lock = "free")
               => ENABLED (\/ WBegin(w) \/ WName(w) \/ WDownload(w) \/ WHash(w)
                           \/ WRefresh(w) \/ WUpload(w) \/ enqueue(w)))

\* files 1 and 2 were enqueued and are unresolved, one still in the buffer and
\* one in a batchCreate call that has not returned, while a worker - which
\* enqueued one of them - is already uploading file 3
C33_Witness ==
    /\ Unresolved(1) /\ Unresolved(2)
    /\ buffer # <<>>
    /\ \E t \in FlushThreads : InRequest(t)
    /\ \E w \in Workers : wk[w].f = 3 /\ wk[w].pc = "upload"

\* C34: the cancellation flag, once set, stays set to the end of the run; a
\* call of the handler that finds the flag set changes nothing (it prints
\* nothing and sets nothing); and the interrupt notice is printed at most
\* once in a run, however many signals are delivered.
C34_CancelFlagSetOnce ==
    /\ [][shutdown => shutdown']_vars
    /\ [][(shutdown /\ ~HandlerIdle /\ TopFrame = "test" /\ sig' # sig)
            => (sig'.notices = sig.notices /\ UNCHANGED <<shutdown, RunVars>>)]_vars
    /\ [](sig.notices <= 1)

Refreshing == {w \in Workers : tok.pc[w] = "refresh"}

\* C35: at most one worker is inside creds.refresh at any time; a refresh is
\* only started on a token found invalid under the lock; and the refreshes
\* that succeeded never outnumber the expiries of the token - workers that
\* met the same expiry and took the lock after the refresh find the token
\* valid and leave without refreshing.
C35_RefreshExclusiveAndOnce ==
    /\ [](Cardinality(Refreshing) <= 1)
    /\ [](\A w \in Refreshing : tok.lock = w /\ ~tok.valid)
    /\ [](tok.refreshed <= tok.expiries)

\* the token has expired; one worker is inside creds.refresh while the other
\* worker has called _refresh_token_if_needed and waits for the lock
C35_Witness ==
    /\ ~tok.valid
    /\ \E w \in Workers, v \in Workers :
          /\ w # v
          /\ tok.pc[w] = "refresh"
          /\ tok.pc[v] = "acquire"

ItemsOf(seq) == {seq[i] : i \in 1..Len(seq)}
NoRepeats(seq) == \A i \in 1..Len(seq), j \in 1..Len(seq) : seq[i] = seq[j] => i = j

\* C36: every pop takes the items that follow, in enqueue order, the ones
\* popped before, and removes them from the buffer in the same step: the
\* batches are successive segments of the sequence of enqueued items, which
\* holds no item twice, so no item is in two batchCreate calls - also when
\* drain() pops while the flush thread, whose join timed out, still holds a
\* batch.
C36_NoItemInTwoCalls ==
    /\ [](NoRepeats(enq))
    /\ [](buffer = SubSeq(enq, popped + 1, Len(enq)))
    /\ [][popped' # popped
            => \E t \in FlushThreads :
                  /\ fl[t].batch = <<>>
                  /\ fl'[t].batch = SubSeq(enq, popped + 1, popped')
                  /\ popped' > popped]_vars
    /\ [](ItemsOf(fl["ft"].batch) \cap ItemsOf(fl["main"].batch) = {})
    /\ [](\A t \in FlushThreads : ItemsOf(fl[t].batch) \cap ItemsOf(buffer) = {})

\* drain() has popped a batch of its own while the flush thread, still alive,
\* is inside the request for the batch it popped before
C36_Witness ==
    /\ fl["main"].batch # <<>>
    /\ fl["ft"].batch # <<>>
    /\ InRequest("ft")
    /\ ft_pc \notin {"dead", "exited"}

\* the _do_flush call of t ends in this step, by return or by an exception
FlushEnds(t) == fl[t].batch # <<>> /\ fl'[t].batch = <<>>

\* C37: when a _do_flush call that popped a batch ends, every item of the
\* batch has exactly one recorded outcome, whatever the destination replied.
C37_PoppedItemsGetOneOutcome ==
    [][\A t \in FlushThreads :
          FlushEnds(t) => \A f \in ItemsOf(fl[t].batch) : Len(rec'[f]) = 1]_vars

\* the destination created a media item for f
Committed(f) == verdict[f] = "ok"

\* C38: in a hash mode no two pending files with the same content are both
\* committed to the destination in one run, and in a filename mode no two
\* pending files with the same name are.
C38_OneCommitPerHashOrName ==
    \A f \in Files, g \in Files :
        (f # g /\ Committed(f) /\ Committed(g))
            => /\ args.dedup_mode \in HashModes => FileHash(f) # FileHash(g)
               /\ args.dedup_mode \in NameModes => FileName(f) # FileName(g)

\* the ids of the last durable snapshot, and the ids recorded in memory that
\* it lacks
DurableIds == _load_json_set("ids")
Unsaved == uploaded_ids \ DurableIds
\* the process was killed and the next run has not loaded the ledger yet
Killed == crashed /\ main_pc \notin {"restarted", "load_error"}
LockFree == ~crashed /\ state_lock = "free"

\* C39 as stated: with the lock free the counter is below K and at most K - 1
\* recorded ids are missing from the durable snapshot, and at a kill at most
\* K - 1 recorded ids are missing from it.
C39_AtMostKMinusOneLost ==
    /\ LockFree => (0 <= ops_since_save /\ ops_since_save < args.save_every)
    /\ LockFree => Cardinality(Unsaved) <= args.save_every - 1
    /\ Killed => Cardinality(Unsaved) <= args.save_every - 1

\* C39, amended: in runs without a failing ledger write, with the lock free
\* the counter is in 0..K-1 and the recorded ids missing from the durable
\* snapshot are at most as many as the counter says; while _persist runs
\* under the lock the counter is at most K - it is K in an auto-checkpoint -
\* and up to K recorded ids are missing until os.replace of the ids file: a
\* kill at any moment loses at most K recorded ids, and K - 1 only if it
\* comes while the lock is free.
C39_AtMostKLost ==
    /\ LockFree => (0 <= ops_since_save /\ ops_since_save < args.save_every)
    /\ LockFree => Cardinality(Unsaved) <= ops_since_save
    /\ (~crashed /\ state_lock # "free") => ops_since_save <= args.save_every
    /\ (~crashed \/ Killed) => Cardinality(Unsaved) <= args.save_every

\* the process is killed inside the checkpoint that the K-th record started,
\* before the ids file is replaced: K recorded ids are not durable
C39_Witness ==
    /\ Killed
    /\ persist \in {"ids_write", "ids_replace"}
    /\ Cardinality(Unsaved) = args.save_every

\* the files of the listing that run() is through with
EngDone == IF eng.pc = "returned" THEN Len(eng.files) ELSE eng.i - 1
Occurs(seq, n, p) == Cardinality({j \in 1..n : seq[j] = p})
InList(seq, p) == \E j \in 1..Len(seq) : seq[j] = p
ListsWith(p) ==
    Cardinality({l \in {"skipped", "verified", "failed"} : InList(eng[l], p)})

\* C40 as stated: when run() has returned, every listed path is in exactly
\* one of skipped, verified and failed, the three lengths sum to the number
\* of listed files, and no skipped path is in transferred.
C40_PathsPartitioned ==
    eng.pc = "returned"
        => /\ \A j \in 1..Len(eng.files) : ListsWith(eng.files[j]) = 1
           /\ Len(eng.skipped) + Len(eng.verified) + Len(eng.failed) = Len(eng.files)
           /\ \A p \in 1..MaxListed : ~(InList(eng.skipped, p) /\ InList(eng.transferred, p))

\* C40, amended: at every moment of run() each listed file it is through with
\* has put its path once into exactly one of skipped, verified and failed -
\* a path is in the three lists together as many times as the files done
\* carry it, so the lengths sum to the number of files done - and a file in
\* progress has put it into none.  When no two listed files share a path,
\* every done path is in exactly one list and no skipped path is in
\* transferred.
C40_FilesPartitioned ==
    /\ \A p \in 1..MaxListed :
          Occurs(eng.skipped, Len(eng.skipped), p)
            + Occurs(eng.verified, Len(eng.verified), p)
            + Occurs(eng.failed, Len(eng.failed), p) = Occurs(eng.files, EngDone, p)
    /\ Len(eng.skipped) + Len(eng.verified) + Len(eng.failed) = EngDone
    /\ NoRepeats(eng.files)
          => /\ \A j \in 1..EngDone : ListsWith(eng.files[j]) = 1
             /\ \A p \in 1..MaxListed :
                   ~(InList(eng.skipped, p) /\ InList(eng.transferred, p))

\* run() has returned from a listing of MaxListed files with distinct paths
\* in skip mode: one was skipped as a duplicate, one was downloaded and then
\* failed, one was verified
C40_Witness ==
    /\ eng.pc = "returned"
    /\ Len(eng.files) = MaxListed
    /\ NoRepeats(eng.files)
    /\ eng.skipped # <<>>
    /\ eng.verified # <<>>
    /\ \E j \in 1..Len(eng.failed) : InList(eng.transferred, eng.failed[j])
====
